---------------------------- MODULE Spec2Model ----------------------------
(***************************************************************************)
(* Model of the hybrid retrieval engine of All-Hazards-AI:                 *)
(*   app/services/vector_index.py     (stores, builds, lazy loaders,       *)
(*                                     semantic searches)                  *)
(*   app/adapters/csv_adapter.py      (direct-match resolver + adapter)    *)
(*   app/services/shell_service.py    (run_shell, overflow spill)          *)
(*   app/services/generation_service.py (retrieve_script_chunks)           *)
(*                                                                         *)
(* Strings are sequences of one-character strings, so that the regular     *)
(* expression, the date parse and the slicing are computed, not assumed.   *)
(* Python's None is NoneVal, a present value v is Some(v).  A call that    *)
(* raises is a result record with ok = FALSE and the exception's name.     *)
(***************************************************************************)
EXTENDS Integers, Sequences, FiniteSets, TLC

VARIABLES
    caseFold,   \* TRUE: the file system is case-insensitive (Windows, macOS)
    dataCsv,    \* DATA_DIR/*.csv : file name -> table (sequence of first-column keys)
    dataPdf,    \* DATA_DIR/*.pdf : file name -> sequence of page texts
    outputs,    \* user_data/outputs : spill path -> text of the spilled file
    disk,       \* .vector_store/<kind>/{index.faiss, meta.parquet}
    mem,        \* the module globals _<kind>_idx, _<kind>_meta, _<kind>_embed
    last,       \* what the last call was given, did and returned
    tasks       \* the concurrent callers (threads, coroutines): position and locals

vars == <<caseFold, dataCsv, dataPdf, outputs, disk, mem, last, tasks>>

(***************************************************************************)
(* Bounds of the model.  The program's large tuning numbers are scaled     *)
(* down so that their cases (a truncated pool, a capped slice, an          *)
(* overflowing output) happen on small inputs.                             *)
(***************************************************************************)
\* largest k a search is called with (vector_index.py:242, default 8)
MaxK == 2
\* the oversampling floor, 200 in max(200, k) (vector_index.py:251)
PoolFloor == 3
\* MAX_CSV_RETR_ROWS, default 10 (csv_adapter.py:24)
MAX_ROWS == 2
\* max_chars of _iter_pdf_items, default 2000 (vector_index.py:109)
PdfMaxChars == 2
\* SCRIPT_CHUNK_SIZE, default 1000 (vector_index.py:165)
ScriptChunkSize == 2
\* the fixed chunk_size of retrieve_script_chunks, 1000 (generation_service.py:84)
RetrieveChunkSize == 2
\* MAX_OUTPUT_CHARS, default 200000 (shell_service.py:69)
MaxOutputChars == 2
\* RAG_TOP_K, default 8 (generation_service.py:62)
TOP_K == 2
\* number of spill files one behaviour creates
MaxSpills == 2

Kinds == {"csv", "pdf", "script"}

NoneVal == [some |-> FALSE, val |-> <<>>]
Some(v) == [some |-> TRUE, val |-> v]

Max(a, b) == IF a >= b THEN a ELSE b
Min(a, b) == IF a <= b THEN a ELSE b


\* s[from : to] of Python, 0-based, clipped to the string
Slice(s, from, to) ==
    LET lo == Min(Max(from, 0), Len(s))
        hi == Min(Max(to, lo), Len(s))
    IN  [i \in 1..(hi - lo) |-> s[lo + i]]

(***************************************************************************)
(* Paths and the file system                                               *)
(***************************************************************************)
NoFile == "<no such file>"

LowerChar(c) == CASE c = "A" -> "a" [] c = "B" -> "b" [] OTHER -> c

\* _norm: Path(p).as_posix().lower(); a file name is one letter here
Norm(p) == LowerChar(p)

\* The directory entry a spelling names, as os.stat finds it.
StatIn(files, p) ==
    IF p \in files THEN p
    ELSE IF caseFold /\ \E f \in files : Norm(f) = Norm(p)
         THEN CHOOSE f \in files : Norm(f) = Norm(p)
         ELSE NoFile

StatCsv(p)    == StatIn(DOMAIN dataCsv, p)
StatPdf(p)    == StatIn(DOMAIN dataPdf, p)
StatOutput(p) == StatIn(DOMAIN outputs, p)

Stat(kind, p) ==
    CASE kind = "csv" -> StatCsv(p)
      [] kind = "pdf" -> StatPdf(p)
      [] OTHER        -> StatOutput(p)

\* Path ordering of sorted(): by code point, upper case before lower case
NameRank(p) ==
    CASE p = "A" -> 1 [] p = "B" -> 2 [] p = "P" -> 3
      [] p = "a" -> 4 [] p = "b" -> 5 [] p = "p" -> 6 [] OTHER -> 7

\* sorted(DATA_DIR.glob(...)): the names in ascending order
RECURSIVE SortedNames(_)
SortedNames(S) ==
    IF S = {} THEN <<>>
    ELSE LET m == CHOOSE x \in S : \A y \in S : NameRank(x) >= NameRank(y)
         IN  Append(SortedNames(S \ {m}), m)

(***************************************************************************)
(* Characters, the date regular expressions and the date parse             *)
(***************************************************************************)
DigitChars == {"0", "1", "2", "3", "4", "5", "6", "7", "8", "9"}
NonWordChars == {" ", "/", "-", "?", ",", "|", "=", ".", ":", "(", ")"}

IsDigit(c)    == c \in DigitChars
IsWordChar(c) == c \notin NonWordChars

DigitVal(c) ==
    CASE c = "0" -> 0 [] c = "1" -> 1 [] c = "2" -> 2 [] c = "3" -> 3
      [] c = "4" -> 4 [] c = "5" -> 5 [] c = "6" -> 6 [] c = "7" -> 7
      [] c = "8" -> 8 [] c = "9" -> 9

DigitChar(n) ==
    CASE n = 0 -> "0" [] n = 1 -> "1" [] n = 2 -> "2" [] n = 3 -> "3"
      [] n = 4 -> "4" [] n = 5 -> "5" [] n = 6 -> "6" [] n = 7 -> "7"
      [] n = 8 -> "8" [] n = 9 -> "9"

\* int(s) of a string of digits
RECURSIVE NumVal(_)
NumVal(s) ==
    IF s = <<>> THEN 0
    ELSE 10 * NumVal(SubSeq(s, 1, Len(s) - 1)) + DigitVal(s[Len(s)])

\* str(n) of a natural number
RECURSIVE Digits(_)
Digits(n) ==
    IF n < 10 THEN <<DigitChar(n)>>
    ELSE Append(Digits(n \div 10), DigitChar(n % 10))

\* number of consecutive digits of s from position i (1-based)
RECURSIVE DigitRun(_, _)
DigitRun(s, i) ==
    IF i > Len(s) \/ ~IsDigit(s[i]) THEN 0 ELSE 1 + DigitRun(s, i + 1)

\* \b\d{1,2}<sep>\d{1,2}<sep>\d{2,4}\b at position i of s, the three digit runs
\* being n1, n2 and n3 long: the length of the match, 0 when there is none.
DateReMatchRuns(s, i, seps, n1, n2, n3) ==
    IF /\ i <= Len(s)
       /\ (i = 1 \/ ~IsWordChar(s[i - 1]))
       /\ n1 \in 1..2 /\ i + n1 <= Len(s) /\ s[i + n1] \in seps
       /\ n2 \in 1..2 /\ i + n1 + n2 + 1 <= Len(s) /\ s[i + n1 + n2 + 1] \in seps
       /\ n3 \in 2..4
       /\ (i + n1 + n2 + n3 + 2 > Len(s) \/ ~IsWordChar(s[i + n1 + n2 + n3 + 2]))
    THEN n1 + n2 + n3 + 2
    ELSE 0

DateReMatchFrom2(s, i, seps, n1, n2) ==
    DateReMatchRuns(s, i, seps, n1, n2, DigitRun(s, i + n1 + n2 + 2))

DateReMatchFrom1(s, i, seps, n1) ==
    DateReMatchFrom2(s, i, seps, n1, DigitRun(s, i + n1 + 1))

\* Length of the match of the date pattern that starts at position i of s,
\* 0 when there is none; seps are the separators the pattern allows.
DateReMatchAt(s, i, seps) == DateReMatchFrom1(s, i, seps, DigitRun(s, i))

LeastOf(S) == CHOOSE x \in S : \A y \in S : x <= y

MatchAt(s, i, seps) == SubSeq(s, i, i + DateReMatchAt(s, i, seps) - 1)

FirstMatch(s, seps, starts) ==
    IF starts = {} THEN NoneVal ELSE Some(MatchAt(s, LeastOf(starts), seps))

\* re.search: the leftmost match, NoneVal when nothing matches
ReSearch(s, seps) ==
    FirstMatch(s, seps, {i \in 1..Len(s) : DateReMatchAt(s, i, seps) > 0})

\* _DATE_RE of csv_adapter.py: '/' only
extract_date_token(text) == ReSearch(text, {"/"})

NoDate == [y |-> 0, m |-> 0, d |-> 0]

IsLeap(y) == (y % 4 = 0 /\ y % 100 # 0) \/ y % 400 = 0

DaysIn(y, m) ==
    IF m = 2 THEN (IF IsLeap(y) THEN 29 ELSE 28)
    ELSE IF m \in {4, 6, 9, 11} THEN 30 ELSE 31

ValidDate(y, m, d) == m \in 1..12 /\ d >= 1 /\ d <= DaysIn(y, m)

\* A two-digit year is taken in the current century (dateutil keeps it
\* within fifty years of today; the inputs here are years 00..49).
FullYear(field) ==
    IF Len(field) = 2 THEN 2000 + NumVal(field) ELSE NumVal(field)

\* The three digit fields of a string of the form <digits><sep><digits><sep><digits>
\* and nothing else, <<>> for any other string.
FieldsOfRuns(s, n1, n2, n3) ==
    IF /\ n1 >= 1 /\ n2 >= 1 /\ n3 >= 1
       /\ n1 + n2 + n3 + 2 = Len(s)
       /\ s[n1 + 1] \in {"/", "-"} /\ s[n1 + n2 + 2] \in {"/", "-"}
    THEN <<SubSeq(s, 1, n1), SubSeq(s, n1 + 2, n1 + n2 + 1),
           SubSeq(s, n1 + n2 + 3, n1 + n2 + n3 + 2)>>
    ELSE <<>>

FieldsFrom2(s, n1, n2) == FieldsOfRuns(s, n1, n2, DigitRun(s, n1 + n2 + 3))
FieldsFrom1(s, n1)     == FieldsFrom2(s, n1, DigitRun(s, n1 + 2))
NumericFields(s)       == FieldsFrom1(s, DigitRun(s, 1))

DateOrNone(y, m, d) == IF ValidDate(y, m, d) THEN [y |-> y, m |-> m, d |-> d] ELSE NoDate

\* month/day/year, read day/month/year when the first field cannot be a month
DateOfMDY(a, b, y) ==
    IF ValidDate(y, a, b) THEN [y |-> y, m |-> a, d |-> b] ELSE DateOrNone(y, b, a)

DateOfFields(f) ==
    IF f = <<>> THEN NoDate
    ELSE IF Len(f[1]) = 4
    THEN DateOrNone(NumVal(f[1]), NumVal(f[2]), NumVal(f[3]))
    ELSE IF Len(f[1]) > 2 \/ Len(f[2]) > 2 \/ Len(f[3]) \notin {2, 4} THEN NoDate
    ELSE DateOfMDY(NumVal(f[1]), NumVal(f[2]), FullYear(f[3]))

\* The numeric spellings: year-month-day when the first field has four
\* digits, otherwise month/day/year.
ParseNumeric(s) == DateOfFields(NumericFields(s))


\* strftime('%B') and strftime('%b'): one symbol per month name
MonthLong(m) ==
    CASE m = 1 -> "January" [] m = 2 -> "February" [] m = 3 -> "March"
      [] m = 4 -> "April" [] m = 5 -> "May" [] m = 6 -> "June" [] m = 7 -> "July"
      [] m = 8 -> "August" [] m = 9 -> "September" [] m = 10 -> "October"
      [] m = 11 -> "November" [] OTHER -> "December"

MonthAbbr(m) ==
    CASE m = 1 -> "Jan" [] m = 2 -> "Feb" [] m = 3 -> "Mar" [] m = 4 -> "Apr"
      [] m = 5 -> "May" [] m = 6 -> "Jun" [] m = 7 -> "Jul" [] m = 8 -> "Aug"
      [] m = 9 -> "Sep" [] m = 10 -> "Oct" [] m = 11 -> "Nov" [] OTHER -> "Dec"

OrdinalSuffix(d) ==
    LET key == IF d < 20 THEN d ELSE d % 10
    IN  CASE key = 1 -> "st" [] key = 2 -> "nd" [] key = 3 -> "rd" [] OTHER -> "th"

OrdinalSuffixes == {"st", "nd", "rd", "th"}

\* the month a month name denotes, 0 for any other symbol
MonthNumber(sym) ==
    IF \E m \in 1..12 : sym \in {MonthLong(m), MonthAbbr(m)}
    THEN CHOOSE m \in 1..12 : sym \in {MonthLong(m), MonthAbbr(m)}
    ELSE 0

\* <month name> <day>[<suffix>] <year>, the day being n digits long and the
\* space before the year standing at position q
NamedAt(s, n, q) ==
    IF /\ n \in 1..2 /\ q < Len(s) /\ s[q] = " "
       /\ DigitRun(s, q + 1) = Len(s) - q
       /\ Len(s) - q \in {2, 4}
    THEN DateOrNone(FullYear(SubSeq(s, q + 1, Len(s))), MonthNumber(s[1]),
                    NumVal(SubSeq(s, 3, n + 2)))
    ELSE NoDate

NamedFrom(s, n) ==
    NamedAt(s, n, IF n + 3 <= Len(s) /\ s[n + 3] \in OrdinalSuffixes
                  THEN n + 4 ELSE n + 3)

\* The spellings with a month name: "March 16 2023", "Mar 16th 2023"
ParseNamed(s) ==
    IF Len(s) >= 5 /\ MonthNumber(s[1]) # 0 /\ s[2] = " "
    THEN NamedFrom(s, DigitRun(s, 3))
    ELSE NoDate

\* The calendar date a string denotes for the date parsers (pandas.to_datetime,
\* dateutil.parser.parse).  NoDate: the parser raises.
ParseDate(s) ==
    IF NumericFields(s) # <<>> THEN ParseNumeric(s) ELSE ParseNamed(s)

Spellings(y, m, d, od) ==
    << m \o <<"/">> \o d \o <<"/">> \o y,
       (IF Len(m) < 2 THEN <<"0">> \o m ELSE m) \o <<"/">>
           \o (IF Len(d) < 2 THEN <<"0">> \o d ELSE d) \o <<"/">> \o y,
       m \o <<"/">> \o d \o <<"/">> \o Slice(y, 2, Len(y)),
       y \o <<"-">> \o (IF Len(m) < 2 THEN <<"0">> \o m ELSE m) \o <<"-">>
           \o (IF Len(d) < 2 THEN <<"0">> \o d ELSE d),
       <<MonthLong(NumVal(m)), " ">> \o d \o <<" ">> \o y,
       <<MonthAbbr(NumVal(m)), " ">> \o d \o <<" ">> \o y,
       <<MonthLong(NumVal(m)), " ">> \o od \o <<" ">> \o y,
       <<MonthAbbr(NumVal(m)), " ">> \o od \o <<" ">> \o y >>

VariantsOf(dt) ==
    IF dt = NoDate THEN <<>>
    ELSE Spellings(Digits(dt.y), Digits(dt.m), Digits(dt.d),
                   Append(Digits(dt.d), OrdinalSuffix(dt.d)))

\* _date_variants: the eight spellings of the date raw parses to, <<>> if none
date_variants(raw) == VariantsOf(ParseDate(raw))

(***************************************************************************)
(* Corpus decomposition                                                    *)
(*                                                                         *)
(* A unit is [text, path, loc].  The embedding function is opaque and      *)
(* deterministic: the vector of a text is written Embed(text).  An index   *)
(* entry also records, as history, the unit it was encoded from (src), so  *)
(* that the correspondence between vectors and metadata rows can be        *)
(* stated; no operation of the program reads src.                          *)
(***************************************************************************)
Embed(text) == [emb |-> text]

RECURSIVE Flatten(_)
Flatten(ss) == IF ss = <<>> THEN <<>> ELSE Head(ss) \o Flatten(Tail(ss))

\* one table: a unit per data row, loc = the row ordinal (0-based)
CsvFileItems(name) ==
    LET tbl == dataCsv[name]
    IN  [i \in 1..Len(tbl) |->
            [text |-> <<"RowKey=">> \o tbl[i] \o Flatten(date_variants(tbl[i])),
             path |-> Norm(name),
             loc  |-> i - 1]]

\* (pno << 16) | ck
RECURSIVE BitOr(_, _)
BitOr(a, b) ==
    IF a = 0 THEN b
    ELSE IF b = 0 THEN a
    ELSE 2 * BitOr(a \div 2, b \div 2) + (IF a % 2 = 1 \/ b % 2 = 1 THEN 1 ELSE 0)

PackLoc(pno, ck) == BitOr(pno * 65536, ck)

\* range(0, len(txt), size): the number of chunks of a text
NChunks(txt, size) == (Len(txt) + size - 1) \div size

PdfPageItems(name, pno) ==
    LET txt == dataPdf[name][pno]
    IN  [c \in 1..NChunks(txt, PdfMaxChars) |->
            [text |-> <<"PDF=", name, "page=">> \o Digits(pno) \o <<"chunk=">>
                        \o Digits(c - 1)
                        \o Slice(txt, (c - 1) * PdfMaxChars, c * PdfMaxChars),
             path |-> Norm(name),
             loc  |-> PackLoc(pno, c - 1)]]

PdfFileItems(name) ==
    Flatten([pno \in 1..Len(dataPdf[name]) |-> PdfPageItems(name, pno)])

\* _iter_csv_items / _iter_pdf_items: every file of the directory, sorted
iter_csv_items ==
    LET names == SortedNames(DOMAIN dataCsv)
    IN  Flatten([n \in 1..Len(names) |-> CsvFileItems(names[n])])

iter_pdf_items ==
    LET names == SortedNames(DOMAIN dataPdf)
    IN  Flatten([n \in 1..Len(names) |-> PdfFileItems(names[n])])

\* the slices of build_script_output_index, loc = the slice's start offset
ScriptItemsAt(txt_path, raw, chunk_size) ==
    [c \in 1..NChunks(raw, chunk_size) |->
        [text |-> Slice(raw, (c - 1) * chunk_size, c * chunk_size),
         path |-> txt_path,
         loc  |-> (c - 1) * chunk_size]]

\* with SCRIPT_CHUNK_SIZE left at its default
ScriptItems(txt_path, raw) == ScriptItemsAt(txt_path, raw, ScriptChunkSize)

(***************************************************************************)
(* Index builds                                                            *)
(***************************************************************************)
\* idx.add(model.encode(texts)): vector i is the encoding of text i
IndexOf(items) ==
    [i \in 1..Len(items) |->
        [vec |-> Embed(items[i].text),
         src |-> [path |-> items[i].path, loc |-> items[i].loc]]]

\* a metadata table written in the opposite order of the vectors
MetaOf_Reversed(items) ==
    [i \in 1..Len(items) |->
        [path |-> items[Len(items) + 1 - i].path, loc |-> items[Len(items) + 1 - i].loc]]

\* pd.DataFrame({"path": paths, "loc": locs})
MetaOf(items) ==
    [i \in 1..Len(items) |-> [path |-> items[i].path, loc |-> items[i].loc]]

Raised(exc) == [ok |-> FALSE, exc |-> exc]
Returned    == [ok |-> TRUE, exc |-> ""]

\* a build that writes its artifacts before it looks whether there was a unit
StoreAfterBuild_WritesFirst(items, before) ==
    [index |-> Some(IndexOf(items)), meta |-> Some(MetaOf(items))]

\* a build that adds its vectors and rows to the store that is there
StoreAfterBuild_Appends(items, before) ==
    IF items = <<>> THEN before
    ELSE IF ~before.index.some \/ ~before.meta.some
    THEN [index |-> Some(IndexOf(items)), meta |-> Some(MetaOf(items))]
    ELSE [index |-> Some(before.index.val \o IndexOf(items)),
          meta  |-> Some(before.meta.val \o MetaOf(items))]

\* The store a build leaves on disk, given what was there: both artifacts
\* written from the same lists; untouched when there is nothing to embed.
StoreAfterBuild(items, before) ==
    IF items = <<>> THEN before
    ELSE [index |-> Some(IndexOf(items)), meta |-> Some(MetaOf(items))]

\* build_csv_index / build_pdf_index raise on an empty corpus;
\* build_script_output_index returns with a warning.
BuildOutcome(kind, items) ==
    IF items = <<>> /\ kind # "script" THEN Raised("RuntimeError") ELSE Returned

CorpusItems(kind) == IF kind = "csv" THEN iter_csv_items ELSE iter_pdf_items

\* Each build returns the store it leaves and how it ended.
BuildFrom(kind, items, d) ==
    [disk |-> StoreAfterBuild(items, d), out |-> BuildOutcome(kind, items)]

build_csv_index(d) == BuildFrom("csv", iter_csv_items, d)
build_pdf_index(d) == BuildFrom("pdf", iter_pdf_items, d)

build_script_output_index(txt_path, raw, d) ==
    BuildFrom("script", ScriptItems(txt_path, raw), d)

(***************************************************************************)
(* Lazy loaders: the process-wide triples                                  *)
(***************************************************************************)
NoTriple == [idx |-> NoneVal, meta |-> NoneVal, embed |-> FALSE]
NoStore  == [index |-> NoneVal, meta |-> NoneVal]

\* a loader that looks for the index file only
StoreMissing_IndexOnly(d) == ~d.index.some

StoreMissing(d) == ~d.index.some \/ ~d.meta.some

\* faiss.read_index, pd.read_parquet, SentenceTransformer(...), in this order;
\* a read of a file that is not there raises and leaves the later globals unset.
ReadStore(m, d) ==
    IF ~d.index.some THEN [mem |-> m, out |-> Raised("ReadIndexError")]
    ELSE IF ~d.meta.some
    THEN [mem |-> [m EXCEPT !.idx = d.index], out |-> Raised("ReadMetaError")]
    ELSE [mem |-> [idx |-> d.index, meta |-> d.meta, embed |-> TRUE],
          out |-> Returned]

LoadFrom(m, d, r, built) ==
    [mem |-> r.mem, disk |-> d, out |-> r.out, built |-> built]

Loaded(m, d) == [mem |-> m, disk |-> d, out |-> Returned, built |-> FALSE]

\* a loader without the `is not None` test: it looks at the disk on every call
LazyBuildLoad_NoMemo(m, d, b) ==
    IF StoreMissing(d)
    THEN IF ~b.out.ok
         THEN [mem |-> m, disk |-> b.disk, out |-> b.out, built |-> FALSE]
         ELSE LoadFrom(m, b.disk, ReadStore(m, b.disk), TRUE)
    ELSE LoadFrom(m, d, ReadStore(m, d), FALSE)

\* _lazy_csv and _lazy_pdf: b is what the store's build does from d
LazyBuildLoad(m, d, b) ==
    IF m.idx.some THEN Loaded(m, d)
    ELSE IF StoreMissing(d)
    THEN IF ~b.out.ok
         THEN [mem |-> m, disk |-> b.disk, out |-> b.out, built |-> FALSE]
         ELSE LoadFrom(m, b.disk, ReadStore(m, b.disk), TRUE)
    ELSE LoadFrom(m, d, ReadStore(m, d), FALSE)

lazy_csv(m, d) == LazyBuildLoad(m, d, build_csv_index(d))
lazy_pdf(m, d) == LazyBuildLoad(m, d, build_pdf_index(d))

\* a loader that goes on to read the store whether it is there or not
lazy_script_ReadsAnyway(m, d) ==
    IF m.idx.some THEN Loaded(m, d)
    ELSE LoadFrom(m, d, ReadStore(m, d), FALSE)

\* _lazy_script never builds: a missing store leaves the globals unset
lazy_script(m, d) ==
    IF m.idx.some \/ StoreMissing(d) THEN Loaded(m, d)
    ELSE LoadFrom(m, d, ReadStore(m, d), FALSE)

(***************************************************************************)
(* Nearest-neighbour search and the per-file filter                        *)
(***************************************************************************)
\* max(200, k)
PoolSize(k) == Max(PoolFloor, k)

RECURSIVE Perms(_)
Perms(S) ==
    IF S = {} THEN {<<>>}
    ELSE UNION {{<<x>> \o p : p \in Perms(S \ {x})} : x \in S}

\* The rankings the index can give: the similarity order of its vectors
\* depends on the question through the opaque embedding, so it is any order.
Rankings(idx) == Perms(0..(Len(idx) - 1))

\* The embedding or the nearest-neighbour backend fails (a dimension
\* mismatch, a device error): encode or idx.search raises instead of ranking.
\* Written as a ranking that is no permutation of the ordinals.
BackendDown == <<-1>>

\* idx.search(qv, pool)[1][0]: the pool best ordinals, padded with -1
FaissHits(rank, pool) ==
    [i \in 1..pool |-> IF i <= Len(rank) THEN rank[i] ELSE -1]

\* One walk of a single-file search over hits[i..]: `kept` are the ordinals
\* kept so far.  samefile() raises FileNotFoundError when either path is not
\* on disk.  Returns the kept ordinals and the number of candidates examined.
RECURSIVE ScanSingle(_, _, _, _, _, _, _)
ScanSingle(kind, hits, meta, target, k, i, kept) ==
    IF i > Len(hits) \/ hits[i] < 0
    THEN [out |-> Returned, kept |-> kept, scanned |-> i - 1]
    ELSE IF hits[i] + 1 > Len(meta)
    THEN [out |-> Raised("KeyError"), kept |-> kept, scanned |-> i]
    ELSE IF Stat(kind, meta[hits[i] + 1].path) = NoFile \/ Stat(kind, target) = NoFile
    THEN [out |-> Raised("FileNotFoundError"), kept |-> kept, scanned |-> i]
    ELSE IF Stat(kind, meta[hits[i] + 1].path) = Stat(kind, target)
    THEN IF Len(kept) + 1 >= k
         THEN [out |-> Returned, kept |-> Append(kept, hits[i]), scanned |-> i]
         ELSE ScanSingle(kind, hits, meta, target, k, i + 1, Append(kept, hits[i]))
    ELSE ScanSingle(kind, hits, meta, target, k, i + 1, kept)

\* a walk that ends as soon as one path has its k results
RECURSIVE ScanMulti_StopsWhenFull(_, _, _, _, _, _)
ScanMulti_StopsWhenFull(hits, meta, paths, k, i, kept) ==
    IF i > Len(hits) \/ hits[i] < 0 \/ \E p \in paths : Len(kept[p]) >= k
    THEN [out |-> Returned, kept |-> kept, scanned |-> i - 1]
    ELSE IF hits[i] + 1 > Len(meta)
    THEN [out |-> Raised("KeyError"), kept |-> kept, scanned |-> i]
    ELSE IF \/ StatCsv(meta[hits[i] + 1].path) = NoFile
            \/ \E p \in paths : StatCsv(p) = NoFile
    THEN [out |-> Raised("FileNotFoundError"), kept |-> kept, scanned |-> i]
    ELSE ScanMulti_StopsWhenFull(hits, meta, paths, k, i + 1,
            [p \in paths |->
                IF StatCsv(meta[hits[i] + 1].path) = StatCsv(p) /\ Len(kept[p]) < k
                THEN Append(kept[p], hits[i])
                ELSE kept[p]])

\* One walk of search_rows_multi: kept[p] are the ordinals kept for path p
RECURSIVE ScanMulti(_, _, _, _, _, _)
ScanMulti(hits, meta, paths, k, i, kept) ==
    IF i > Len(hits) \/ hits[i] < 0
    THEN [out |-> Returned, kept |-> kept, scanned |-> i - 1]
    ELSE IF hits[i] + 1 > Len(meta)
    THEN [out |-> Raised("KeyError"), kept |-> kept, scanned |-> i]
    ELSE IF \/ StatCsv(meta[hits[i] + 1].path) = NoFile
            \/ \E p \in paths : StatCsv(p) = NoFile
    THEN [out |-> Raised("FileNotFoundError"), kept |-> kept, scanned |-> i]
    ELSE ScanMulti(hits, meta, paths, k, i + 1,
            [p \in paths |->
                IF StatCsv(meta[hits[i] + 1].path) = StatCsv(p) /\ Len(kept[p]) < k
                THEN Append(kept[p], hits[i])
                ELSE kept[p]])

\* int(meta.at[i, "loc"]) of every kept ordinal
LocsOf(meta, kept) == [j \in 1..Len(kept) |-> meta[kept[j] + 1].loc]

NoSearch(out) ==
    [out |-> out, hits |-> <<>>, kept |-> <<>>, scanned |-> 0, result |-> <<>>]

SearchResult(meta, hits, sc) ==
    [out |-> sc.out, hits |-> hits, kept |-> sc.kept, scanned |-> sc.scanned,
     result |-> IF sc.out.ok THEN LocsOf(meta, sc.kept) ELSE <<>>]

FilterHits(kind, hits, meta, target, k) ==
    SearchResult(meta, hits, ScanSingle(kind, hits, meta, target, k, 1, <<>>))

\* The body of a single-file search after its lazy load `l`, for the ranking
\* `rank` the index gives the question.
SearchAfterLoad(kind, l, rank, target, k) ==
    IF ~l.out.ok THEN NoSearch(l.out)
    ELSE IF rank = BackendDown THEN NoSearch(Raised("RuntimeError"))
    ELSE FilterHits(kind, FaissHits(rank, PoolSize(k)), l.mem.meta.val, target, k)

search_rows(l, rank, csv_path, k) == SearchAfterLoad("csv", l, rank, csv_path, k)

\* (loc >> 16, loc & 0xFFFF) of every location code
UnpackLocs(locs) ==
    [j \in 1..Len(locs) |-> <<locs[j] \div 65536, locs[j] % 65536>>]

WithUnpacked(r) == [r EXCEPT !.result = UnpackLocs(r.result)]

search_pdf_chunks(l, rank, pdf_path, k) ==
    WithUnpacked(SearchAfterLoad("pdf", l, rank, pdf_path, k))

\* search_script_chunks returns [] when the store is still unset after the load
search_script_chunks(l, rank, txt_path, k) ==
    IF ~l.mem.idx.some THEN NoSearch(l.out)
    ELSE SearchAfterLoad("script", l, rank, txt_path, k)

NoMultiSearch(out, csv_paths) ==
    [out |-> out, hits |-> <<>>, kept |-> [p \in csv_paths |-> <<>>],
     scanned |-> 0, result |-> [p \in csv_paths |-> <<>>]]

MultiResult(meta, hits, csv_paths, sc) ==
    [out |-> sc.out, hits |-> hits, kept |-> sc.kept, scanned |-> sc.scanned,
     result |-> [p \in csv_paths |->
                    IF sc.out.ok THEN LocsOf(meta, sc.kept[p]) ELSE <<>>]]

FilterHitsMulti(hits, meta, csv_paths, k) ==
    MultiResult(meta, hits, csv_paths,
                ScanMulti(hits, meta, csv_paths, k, 1, [p \in csv_paths |-> <<>>]))

search_rows_multi(l, rank, csv_paths, k) ==
    IF ~l.out.ok THEN NoMultiSearch(l.out, csv_paths)
    ELSE IF rank = BackendDown THEN NoMultiSearch(Raised("RuntimeError"), csv_paths)
    ELSE FilterHitsMulti(FaissHits(rank, PoolSize(k)), l.mem.meta.val, csv_paths, k)

(***************************************************************************)
(* Question augmentation                                                   *)
(*                                                                         *)
(* dateutil's parse raises ParserError (a ValueError) on a string with no  *)
(* date in it and OverflowError on a number too large; which of the two a  *)
(* failing parse raises is an input of the call.                           *)
(***************************************************************************)
DpParseErrors == {"ParserError", "OverflowError"}

\* the exceptions an except clause naming cls catches
ExceptionFamily(cls) ==
    IF cls = "Exception"
    THEN {"Exception", "ValueError", "ParserError", "OverflowError", "TypeError"}
    ELSE IF cls = "ValueError" THEN {"ValueError", "ParserError"}
    ELSE {cls}

Caught(handlers, exc) == \E cls \in handlers : exc \in ExceptionFamily(cls)

\* try: dt = dp.parse(raw) / except <handlers>: return [] / ... return variants
VariantsOutcome(dt, exc, handlers) ==
    IF dt # NoDate THEN [out |-> Returned, val |-> VariantsOf(dt)]
    ELSE IF Caught(handlers, exc) THEN [out |-> Returned, val |-> <<>>]
    ELSE [out |-> Raised(exc), val |-> <<>>]

\* a _date_variants that expects only the parser's own error
date_variants_call_ValueErrorOnly(raw, exc) ==
    VariantsOutcome(ParseDate(raw), exc, {"ValueError"})

\* The call _date_variants(raw), exc being what dp.parse raises if it fails
date_variants_call(raw, exc) ==
    VariantsOutcome(ParseDate(raw), exc, {"Exception"})

\* The stretches of s between word boundaries that the parser reads as a date
DateStretches(s) ==
    {p \in (1..Len(s)) \X (1..Len(s)) :
        /\ p[1] <= p[2]
        /\ (p[1] = 1 \/ ~IsWordChar(s[p[1] - 1]))
        /\ (p[2] = Len(s) \/ ~IsWordChar(s[p[2] + 1]))
        /\ ParseDate(SubSeq(s, p[1], p[2])) # NoDate}

\* the leftmost stretch, the longest of those starting there
FirstStretch(S) ==
    CHOOSE p \in S : \A q \in S : p[1] < q[1] \/ (p[1] = q[1] /\ p[2] >= q[2])

FuzzyPick(s, S) ==
    IF S = {} THEN NoDate
    ELSE ParseDate(SubSeq(s, FirstStretch(S)[1], FirstStretch(S)[2]))

\* dp.parse(question, fuzzy=True): the date spelled somewhere in the text,
\* the words around it skipped; NoDate: the parser raises.
FuzzyParse(s) == FuzzyPick(s, DateStretches(s))

\* dt.strftime("%m/%d/%Y")
StrftimeMDY(dt) == VariantsOf(dt)[2]

\* _NUM_DATE_RE of vector_index.py: '/' or '-'
NumDateSearch(question) == ReSearch(question, {"/", "-"})

\* The raw token _augment_question_with_dates works from: the first match of
\* the numeric pattern, else the date of the lenient parse of the whole
\* question spelled %m/%d/%Y, NoneVal when that parse fails.
AugmentRawFrom(m, dt) ==
    IF m.some THEN m
    ELSE IF dt = NoDate THEN NoneVal ELSE Some(StrftimeMDY(dt))

augment_raw(question) ==
    AugmentRawFrom(NumDateSearch(question), FuzzyParse(question))

\* " | ".join(variants)
RECURSIVE JoinBar(_)
JoinBar(variants) ==
    IF Len(variants) = 1 THEN variants[1]
    ELSE variants[1] \o <<" ", "|", " ">> \o JoinBar(Tail(variants))

AugmentFrom(question, v) ==
    IF ~v.out.ok THEN [out |-> v.out, val |-> <<>>]
    ELSE IF v.val = <<>> THEN [out |-> Returned, val |-> question]
    ELSE [out |-> Returned,
          val |-> question \o <<" ", "|", " ">> \o JoinBar(v.val)]

AugmentOn(question, raw, exc) ==
    IF raw.some THEN AugmentFrom(question, date_variants_call(raw.val, exc))
    ELSE IF Caught({"Exception"}, exc)
    THEN [out |-> Returned, val |-> question]
    ELSE [out |-> Raised(exc), val |-> <<>>]

\* _augment_question_with_dates: the question followed by the spellings of
\* its date, the question itself when it has none
augment_question_with_dates(question, exc) ==
    AugmentOn(question, augment_raw(question), exc)

(***************************************************************************)
(* Direct-match resolver and the CSV adapter                               *)
(***************************************************************************)
\* pd.to_datetime(df.iloc[:, 0], errors="coerce").dt.date == dt : the
\* ordinals (0-based) of the rows whose key parses to the date dt.  Each key
\* is parsed on its own; a key that does not parse is NaT and equals no date.
DateMatches(dt, df) ==
    {i \in 0..(Len(df) - 1) : ParseDate(df[i + 1]) # NoDate /\ ParseDate(df[i + 1]) = dt}

RECURSIVE Ascending(_)
Ascending(S) ==
    IF S = {} THEN <<>>
    ELSE LET m == CHOOSE x \in S : \A y \in S : x >= y
         IN  Append(Ascending(S \ {m}), m)

RowsOrNone(S) ==
    [out |-> Returned, val |-> IF S = {} THEN NoneVal ELSE Some(Ascending(S))]

\* a resolver that lets the parse failure escape
SliceForDate_Raises(dt, df) ==
    IF dt = NoDate THEN [out |-> Raised("ValueError"), val |-> NoneVal]
    ELSE RowsOrNone(DateMatches(dt, df))

SliceForDate(dt, df) ==
    IF dt = NoDate THEN [out |-> Returned, val |-> NoneVal]
    ELSE RowsOrNone(DateMatches(dt, df))

\* str.lstrip("0")
RECURSIVE StripLeadingZeros(_)
StripLeadingZeros(s) ==
    IF s # <<>> /\ Head(s) = "0" THEN StripLeadingZeros(Tail(s)) ELSE s

IsSubstring(s, t) ==
    \E i \in 1..(Len(t) - Len(s) + 1) : SubSeq(t, i, i + Len(s) - 1) = s

\* the ordinals of the rows whose raw key contains the token, leading zeros
\* stripped
LooseMatches(date_token, df) ==
    {i \in 0..(Len(df) - 1) : IsSubstring(StripLeadingZeros(date_token), df[i + 1])}

\* a resolver that compares the raw strings instead of the dates
direct_date_slice_RawEqual(date_token, df) ==
    RowsOrNone({i \in 0..(Len(df) - 1) : df[i + 1] = date_token})

\* a resolver with a second, loose tier after the exact one
direct_date_slice_TwoTier(date_token, df) ==
    IF SliceForDate(ParseDate(date_token), df).val.some
    THEN SliceForDate(ParseDate(date_token), df)
    ELSE RowsOrNone(LooseMatches(date_token, df))

\* _direct_date_slice: the matching rows, None when the token does not parse
\* (the ValueError is caught) or no row matches.
direct_date_slice(date_token, df) == SliceForDate(ParseDate(date_token), df)

\* df.iloc[row_ids]: an ordinal outside the table raises IndexError
IlocOutcome(df, row_ids) ==
    IF \E j \in 1..Len(row_ids) : row_ids[j] >= Len(df)
    THEN Raised("IndexError") ELSE Returned

\* df_prev.iloc[:MAX_ROWS] of a direct hit; an empty slice sends the call on
CapDirect(token, dsl) ==
    IF ~dsl.out.ok
    THEN [out |-> dsl.out, token |-> token, df_prev |-> NoneVal]
    ELSE IF ~dsl.val.some \/ Slice(dsl.val.val, 0, MAX_ROWS) = <<>>
    THEN [out |-> Returned, token |-> token, df_prev |-> NoneVal]
    ELSE [out |-> Returned, token |-> token,
          df_prev |-> Some(Slice(dsl.val.val, 0, MAX_ROWS))]

DirectStepOn(token, df) ==
    IF ~token.some
    THEN [out |-> Returned, token |-> token, df_prev |-> NoneVal]
    ELSE CapDirect(token, direct_date_slice(token.val, df))

\* Step 1 of format_csv_for_prompt (lines 64-75): the table, the token and
\* the capped direct slice.  df_prev is NoneVal when step 2 has to run.
CsvDirectStep(question, file_path) ==
    IF StatCsv(file_path) = NoFile
    THEN [out |-> Raised("FileNotFoundError"), token |-> NoneVal, df_prev |-> NoneVal]
    ELSE DirectStepOn(extract_date_token(question), dataCsv[StatCsv(file_path)])

NeedsSearch(st) == st.out.ok /\ ~st.df_prev.some

\* Does the call reach line 78, search_rows(question, str(full_path), k=MAX_ROWS)?
CsvNeedsSearch(question, file_path) == NeedsSearch(CsvDirectStep(question, file_path))

\* row_ids, with the last-chance fallback of line 80
RowIds(found, df) ==
    IF found = <<>> THEN [j \in 1..Min(MAX_ROWS, Len(df)) |-> j - 1] ELSE found

Preview(token, call, df, ids) ==
    [out |-> IlocOutcome(df, ids), token |-> token, direct |-> NoneVal,
     searches |-> <<call>>,
     rows |-> IF IlocOutcome(df, ids).ok THEN ids ELSE <<>>]

\* Step 2 of format_csv_for_prompt (lines 77-81), sr being what search_rows did
CsvSearchStep(token, file_path, df, sr) ==
    IF ~sr.out.ok
    THEN [out |-> sr.out, token |-> token, direct |-> NoneVal,
          searches |-> <<[path |-> file_path, k |-> MAX_ROWS]>>, rows |-> <<>>]
    ELSE Preview(token, [path |-> file_path, k |-> MAX_ROWS], df, RowIds(sr.result, df))

FormatFrom(st, file_path, l, rank) ==
    IF ~st.out.ok
    THEN [out |-> st.out, token |-> st.token, direct |-> NoneVal,
          searches |-> <<>>, rows |-> <<>>]
    ELSE IF st.df_prev.some
    THEN [out |-> Returned, token |-> st.token, direct |-> st.df_prev,
          searches |-> <<>>, rows |-> st.df_prev.val]
    ELSE CsvSearchStep(st.token, file_path, dataCsv[StatCsv(file_path)],
                       search_rows(l, rank, file_path, MAX_ROWS))

\* format_csv_for_prompt, for the lazy load `l` and the ranking `rank` its
\* search_rows call meets.  rows: the ordinals of the rows of the preview;
\* searches: the search_rows calls made.
format_csv_for_prompt(question, file_path, l, rank) ==
    FormatFrom(CsvDirectStep(question, file_path), file_path, l, rank)

(***************************************************************************)
(* run_shell and the spill retrieval                                       *)
(***************************************************************************)
Marker == "__INDEXED_OUTPUT__:"

\* tempfile.NamedTemporaryFile(delete=False): a name not in use
SpillNames == <<"s1", "s2", "s3", "s4">>
FreshSpill == SpillNames[Cardinality(DOMAIN outputs) + 1]

Sentinel(path) == <<Marker, path>>

Spill(path, output, files, b) ==
    [out     |-> Returned,
     ret     |-> Sentinel(path),
     spilled |-> TRUE,
     files   |-> [p \in DOMAIN files \cup {path} |->
                     IF p = path THEN output ELSE files[p]],
     disk    |-> b.disk]

\* a run_shell that spills at the threshold already
run_shell_SpillsAtThreshold(proc, files, d) ==
    IF ~proc.exists
    THEN [out |-> Raised("FileNotFoundError"), ret |-> <<>>, spilled |-> FALSE,
          files |-> files, disk |-> d]
    ELSE IF proc.rc # 0
    THEN [out |-> Raised("RuntimeError"), ret |-> <<>>, spilled |-> FALSE,
          files |-> files, disk |-> d]
    ELSE IF Len(proc.stdout) >= MaxOutputChars
    THEN Spill(FreshSpill, proc.stdout, files,
               build_script_output_index(FreshSpill, proc.stdout, d))
    ELSE [out |-> Returned, ret |-> proc.stdout, spilled |-> FALSE,
          files |-> files, disk |-> d]

\* run_shell for a script whose process ended as `proc` (exit status and
\* stdout): the value returned, the spill files and the transient-text store
\* after the call.
run_shell(proc, files, d) ==
    IF ~proc.exists
    THEN [out |-> Raised("FileNotFoundError"), ret |-> <<>>, spilled |-> FALSE,
          files |-> files, disk |-> d]
    ELSE IF proc.rc # 0
    THEN [out |-> Raised("RuntimeError"), ret |-> <<>>, spilled |-> FALSE,
          files |-> files, disk |-> d]
    ELSE IF Len(proc.stdout) > MaxOutputChars
    THEN Spill(FreshSpill, proc.stdout, files,
               build_script_output_index(FreshSpill, proc.stdout, d))
    ELSE [out |-> Returned, ret |-> proc.stdout, spilled |-> FALSE,
          files |-> files, disk |-> d]

\* idx.search(q_emb, top_k) of retrieve_script_chunks: no oversampling
RECURSIVE ChunksAt(_, _, _)
ChunksAt(raw, meta, I) ==
    IF I = <<>> THEN <<>>
    ELSE IF Head(I) < 0 \/ Head(I) >= Len(meta)
    THEN ChunksAt(raw, meta, Tail(I))
    ELSE <<[row   |-> Head(I),
            chunk |-> Slice(raw, meta[Head(I) + 1].loc,
                            meta[Head(I) + 1].loc + RetrieveChunkSize)]>>
         \o ChunksAt(raw, meta, Tail(I))

\* retrieve_script_chunks reads the store from disk on every call and never
\* looks at the metadata paths.
retrieve_script_chunks_in(files, txt_path, rank, top_k, d) ==
    IF StoreMissing(d)
    THEN [out |-> Returned, chunks |-> <<>>]
    ELSE IF StatIn(DOMAIN files, txt_path) = NoFile
    THEN [out |-> Raised("FileNotFoundError"), chunks |-> <<>>]
    ELSE [out |-> Returned,
          chunks |-> ChunksAt(files[StatIn(DOMAIN files, txt_path)], d.meta.val,
                              FaissHits(rank, top_k))]

retrieve_script_chunks(txt_path, rank, top_k, d) ==
    retrieve_script_chunks_in(outputs, txt_path, rank, top_k, d)

\* format_shell_for_prompt on what run_shell returned: the output verbatim
\* when it starts with the marker, otherwise the output in a code block
format_shell_for_prompt(path, r) ==
    IF ~r.out.ok THEN [out |-> r.out, snippet |-> <<>>]
    ELSE IF r.ret # <<>> /\ r.ret[1] = Marker
    THEN [out |-> Returned, snippet |-> r.ret]
    ELSE [out |-> Returned,
          snippet |-> <<"Shell Execution of", path, "[code]">> \o r.ret
                          \o <<"[/code]">>]

\* "__INDEXED_OUTPUT__:" in snippet, and where
MarkerPos(snippet) ==
    IF \E i \in 1..Len(snippet) : snippet[i] = Marker
    THEN CHOOSE i \in 1..Len(snippet) :
            snippet[i] = Marker /\ \A j \in 1..(i - 1) : snippet[j] # Marker
    ELSE 0

\* Lines 116-128 of _build_prompt for one adapter snippet, pos being the
\* place of the marker in it (0: none): the text that goes into the prompt,
\* whether the retrieval ran and on which path.
PromptPartAt(snippet, pos, files, d, rank) ==
    IF pos = 0
    THEN [out |-> Returned, retrieved |-> FALSE, path |-> NoneVal,
          chunks |-> <<>>, text |-> snippet]
    ELSE IF pos = Len(snippet)
    THEN [out |-> Raised("IndexError"), retrieved |-> FALSE, path |-> NoneVal,
          chunks |-> <<>>, text |-> <<>>]
    ELSE [out |-> retrieve_script_chunks_in(files, snippet[pos + 1], rank, TOP_K, d).out,
          retrieved |-> TRUE, path |-> Some(snippet[pos + 1]),
          chunks |-> retrieve_script_chunks_in(files, snippet[pos + 1], rank, TOP_K, d).chunks,
          text |-> <<"Relevant Script-Output Chunks:">>]

PromptPart(snippet, files, d, rank) ==
    PromptPartAt(snippet, MarkerPos(snippet), files, d, rank)

\* _build_prompt for one script query whose run_shell call did r
ScriptPromptFrom(path, r, fs, rank) ==
    IF ~fs.out.ok
    THEN [out |-> fs.out, retrieved |-> FALSE, path |-> NoneVal,
          chunks |-> <<>>, text |-> <<>>]
    ELSE PromptPart(fs.snippet, r.files, r.disk, rank)

build_prompt_script(path, r, rank) ==
    ScriptPromptFrom(path, r, format_shell_for_prompt(path, r), rank)

(***************************************************************************)
(* Inputs                                                                  *)
(***************************************************************************)
K_3_16_2023   == <<"3", "/", "1", "6", "/", "2", "0", "2", "3">>
K_03_16_2023  == <<"0", "3", "/", "1", "6", "/", "2", "0", "2", "3">>
K_3_16_23     == <<"3", "/", "1", "6", "/", "2", "3">>
K_iso_3_16    == <<"2", "0", "2", "3", "-", "0", "3", "-", "1", "6">>
K_4_1_2023    == <<"4", "/", "1", "/", "2", "0", "2", "3">>
K_4_1_23      == <<"4", "/", "1", "/", "2", "3">>
K_13_45_2023  == <<"1", "3", "/", "4", "5", "/", "2", "0", "2", "3">>
K_3d16d2023   == <<"3", "-", "1", "6", "-", "2", "0", "2", "3">>
K_5_5_2023    == <<"5", "/", "5", "/", "2", "0", "2", "3">>
K_Total       == <<"T", "o", "t", "a", "l">>

Questions ==
    { <<"o", "n", " ">> \o K_3_16_2023 \o <<"?">>,   \* a date three rows have
      K_4_1_23,                                       \* a date one row has
      <<"a", "t", " ">> \o K_13_45_2023,              \* matches the pattern, is no date
      <<"s", "t", "o", "r", "m", "s">>,               \* no date
      <<"o", "n", " ">> \o K_3d16d2023,               \* a date with '-' separators
      K_5_5_2023 }                                    \* a date no row has

\* The tabular corpora: file name -> first-column keys of its data rows
CsvCorpora ==
    { <<>>,
      [n \in {"a", "b"} |->
          IF n = "a" THEN <<K_03_16_2023, K_3_16_23, K_iso_3_16>>
          ELSE <<K_13_45_2023>>],
      [n \in {"A", "b"} |->
          IF n = "A" THEN <<K_4_1_2023, K_Total>>
          ELSE <<K_3_16_2023, K_5_5_2023>>] }

CsvPaths == {"a", "A", "b"}

\* The document corpora: file name -> page texts
PdfCorpora ==
    { <<>>,
      [n \in {"p", "q"} |->
          IF n = "p" THEN << <<"x", "y", "z">>, <<>>, <<"w">> >>
          ELSE << <<"v">> >>] }

PdfPaths == {"p", "P", "q"}

\* a path under user_data/outputs at which no file is ever written
AbsentPath == "s0"

\* What a script can print, and how it can end
Procs ==
    { [exists |-> FALSE, rc |-> 0, stdout |-> <<>>],
      [exists |-> TRUE, rc |-> 1, stdout |-> <<>>],
      [exists |-> TRUE, rc |-> 0, stdout |-> <<>>],
      [exists |-> TRUE, rc |-> 0, stdout |-> <<"x", "y">>],
      [exists |-> TRUE, rc |-> 0, stdout |-> <<Marker, "s1">>],
      [exists |-> TRUE, rc |-> 0, stdout |-> <<"x", "y", "z">>],
      [exists |-> TRUE, rc |-> 0, stdout |-> <<"u", "v", "w", "x", "y">>] }

Ks == 0..MaxK

(***************************************************************************)
(* The state machine                                                       *)
(*                                                                         *)
(* The three stores share nothing (separate artifacts, separate globals),  *)
(* so a behaviour works on the corpus of one kind: the other two corpora   *)
(* are empty and their stores stay as they start.                          *)
(***************************************************************************)
\* no concurrent caller: the calls are made one after the other
NoTasks == <<>>

Idle == [op |-> "idle"]

Init ==
    /\ caseFold \in BOOLEAN
    /\ dataCsv \in CsvCorpora
    /\ dataPdf \in PdfCorpora
    /\ dataCsv = <<>> \/ dataPdf = <<>>
    /\ outputs = <<>>
    /\ disk = [kind \in Kinds |-> NoStore]
    /\ mem = [kind \in Kinds |-> NoTriple]
    /\ last = Idle
    /\ tasks = NoTasks

\* A call is made when the previous one has been answered.
Ready == last = Idle

\* what the backend can do with the question after the lazy load l
RanksAfter(l) ==
    IF l.out.ok /\ l.mem.idx.some
    THEN Rankings(l.mem.idx.val) \cup {BackendDown}
    ELSE {<<>>}

\* the store `kind` has never been built or loaded
Untouched(kind) == disk[kind] = NoStore /\ mem[kind] = NoTriple

BuildStore(kind, b, items) ==
    /\ Ready
    /\ disk' = [disk EXCEPT ![kind] = b.disk]
    /\ last' = [op |-> "build", kind |-> kind, out |-> b.out, items |-> items,
                before |-> disk[kind]]
    /\ UNCHANGED <<tasks, caseFold, dataCsv, dataPdf, outputs, mem>>

\* python -m app.services.vector_index: build_csv_index(), build_pdf_index()
BuildCsvIndex == BuildStore("csv", build_csv_index(disk["csv"]), iter_csv_items)
BuildPdfIndex == BuildStore("pdf", build_pdf_index(disk["pdf"]), iter_pdf_items)

\* A single-file search of the store `kind`: l is its lazy load, res what
\* the search returns.
SearchStore(kind, target, k, l, res) ==
    /\ mem' = [mem EXCEPT ![kind] = l.mem]
    /\ disk' = [disk EXCEPT ![kind] = l.disk]
    /\ last' = [op |-> "search", kind |-> kind, target |-> target, k |-> k,
                before |-> disk[kind],
                first |-> ~mem[kind].idx.some,
                built |-> l.built,
                meta |-> l.mem.meta,
                res |-> res]
    /\ UNCHANGED <<tasks, caseFold, dataCsv, dataPdf, outputs>>

SearchRowsOn(csv_path, k, l) ==
    \E rank \in RanksAfter(l) :
        SearchStore("csv", csv_path, k, l, search_rows(l, rank, csv_path, k))

SearchRows ==
    \E csv_path \in CsvPaths, k \in Ks :
        Ready /\ SearchRowsOn(csv_path, k, lazy_csv(mem["csv"], disk["csv"]))

SearchPdfChunksOn(pdf_path, k, l) ==
    \E rank \in RanksAfter(l) :
        SearchStore("pdf", pdf_path, k, l, search_pdf_chunks(l, rank, pdf_path, k))

SearchPdfChunks ==
    \E pdf_path \in PdfPaths, k \in Ks :
        Ready /\ SearchPdfChunksOn(pdf_path, k, lazy_pdf(mem["pdf"], disk["pdf"]))

SearchScriptChunksOn(txt_path, k, l) ==
    \E rank \in RanksAfter(l) :
        SearchStore("script", txt_path, k, l, search_script_chunks(l, rank, txt_path, k))

\* txt_path: a spilled file, or a path at which there is no file
SearchScriptChunks ==
    \E txt_path \in DOMAIN outputs \cup {AbsentPath}, k \in Ks :
        Ready /\ SearchScriptChunksOn(txt_path, k,
                                      lazy_script(mem["script"], disk["script"]))

SearchRowsMultiOn(csv_paths, k, l) ==
    \E rank \in RanksAfter(l) :
        /\ mem' = [mem EXCEPT !["csv"] = l.mem]
        /\ disk' = [disk EXCEPT !["csv"] = l.disk]
        /\ last' = [op |-> "search_rows_multi", targets |-> csv_paths, k |-> k,
                    kind |-> "csv",
                    before |-> disk["csv"],
                    first |-> ~mem["csv"].idx.some,
                    built |-> l.built,
                    meta |-> l.mem.meta,
                    res |-> search_rows_multi(l, rank, csv_paths, k)]
        /\ UNCHANGED <<tasks, caseFold, dataCsv, dataPdf, outputs>>

SearchRowsMulti ==
    \E csv_paths \in (SUBSET CsvPaths) \ {{}}, k \in Ks :
        Ready /\ SearchRowsMultiOn(csv_paths, k, lazy_csv(mem["csv"], disk["csv"]))

FormatCsvOn(question, file_path, l) ==
    \E rank \in RanksAfter(l) :
        /\ mem' = [mem EXCEPT !["csv"] = l.mem]
        /\ disk' = [disk EXCEPT !["csv"] = l.disk]
        /\ last' = [op |-> "format_csv_for_prompt", question |-> question,
                    target |-> file_path, backend |-> rank,
                    found |-> search_rows(l, rank, file_path, MAX_ROWS).result,
                    res |-> format_csv_for_prompt(question, file_path, l, rank)]
        /\ UNCHANGED <<tasks, caseFold, dataCsv, dataPdf, outputs>>

\* format_csv_for_prompt reaches _lazy_csv only through search_rows
FormatCsvForPrompt ==
    \E question \in Questions, file_path \in CsvPaths :
        /\ Ready
        /\ IF CsvNeedsSearch(question, file_path)
           THEN FormatCsvOn(question, file_path, lazy_csv(mem["csv"], disk["csv"]))
           ELSE /\ last' = [op |-> "format_csv_for_prompt", question |-> question,
                            target |-> file_path, backend |-> <<>>, found |-> <<>>,
                            res |-> format_csv_for_prompt(question, file_path,
                                        Loaded(mem["csv"], disk["csv"]), <<>>)]
                /\ UNCHANGED <<tasks, caseFold, dataCsv, dataPdf, outputs, disk, mem>>

RunShellOn(proc, r) ==
    /\ outputs' = r.files
    /\ disk' = [disk EXCEPT !["script"] = r.disk]
    /\ last' = [op |-> "run_shell", proc |-> proc, res |-> r,
                before |-> disk["script"], had |-> DOMAIN outputs]
    /\ UNCHANGED <<tasks, caseFold, dataCsv, dataPdf, mem>>

RunShell ==
    \E proc \in Procs :
        /\ Ready
        /\ dataCsv = <<>> /\ dataPdf = <<>>
        /\ Untouched("csv") /\ Untouched("pdf")
        /\ Cardinality(DOMAIN outputs) < MaxSpills
        /\ RunShellOn(proc, run_shell(proc, outputs, disk["script"]))

\* the rankings the index of the transient-text store d can give
RanksOnDisk(d) == IF StoreMissing(d) THEN {<<>>} ELSE Rankings(d.index.val)

BuildPromptOn(proc, r) ==
    \E rank \in RanksOnDisk(r.disk) :
        /\ outputs' = r.files
        /\ disk' = [disk EXCEPT !["script"] = r.disk]
        /\ last' = [op |-> "build_prompt", proc |-> proc, run |-> r,
                    had |-> DOMAIN outputs,
                    part |-> build_prompt_script("script.py", r, rank)]
        /\ UNCHANGED <<tasks, caseFold, dataCsv, dataPdf, mem>>

\* _build_prompt with one script query, no other request in progress
BuildPromptScript ==
    \E proc \in Procs :
        /\ Ready
        /\ dataCsv = <<>> /\ dataPdf = <<>>
        /\ Untouched("csv") /\ Untouched("pdf")
        /\ Cardinality(DOMAIN outputs) < MaxSpills
        /\ BuildPromptOn(proc, run_shell(proc, outputs, disk["script"]))

RetrieveScriptChunks ==
    \E txt_path \in DOMAIN outputs :
        \E rank \in (IF StoreMissing(disk["script"]) THEN {<<>>}
                     ELSE Rankings(disk["script"].index.val)) :
            /\ Ready
            /\ last' = [op |-> "retrieve_script_chunks", target |-> txt_path,
                        meta |-> disk["script"].meta,
                        res |-> retrieve_script_chunks(txt_path, rank, TOP_K,
                                                       disk["script"])]
            /\ UNCHANGED <<tasks, caseFold, dataCsv, dataPdf, outputs, disk, mem>>

\* The server process is restarted: the module globals are unset again.
Restart ==
    /\ Ready
    /\ mem # [kind \in Kinds |-> NoTriple]
    /\ mem' = [kind \in Kinds |-> NoTriple]
    /\ last' = Idle
    /\ UNCHANGED <<tasks, caseFold, dataCsv, dataPdf, outputs, disk>>

\* One artifact of the tabular or document store is removed from the disk
\* (a cleaned checkout, a partial copy of .vector_store).
RemoveArtifact ==
    \E kind \in {"csv", "pdf"}, which \in {"index", "meta"} :
        /\ Ready
        /\ disk[kind][which].some
        /\ disk' = [disk EXCEPT ![kind][which] = NoneVal]
        /\ last' = Idle
        /\ UNCHANGED <<tasks, caseFold, dataCsv, dataPdf, outputs, mem>>

\* Files are added to, removed from or rewritten in DATA_DIR between calls.
\* (The corpus of the other kind is empty and its store untouched.)
ChangeCsvCorpus ==
    \E c \in CsvCorpora \ {dataCsv} :
        /\ Ready
        /\ dataPdf = <<>> /\ Untouched("pdf") /\ Untouched("script")
        /\ dataCsv' = c
        /\ last' = Idle
        /\ UNCHANGED <<tasks, caseFold, dataPdf, outputs, disk, mem>>

ChangePdfCorpus ==
    \E c \in PdfCorpora \ {dataPdf} :
        /\ Ready
        /\ dataCsv = <<>> /\ Untouched("csv") /\ Untouched("script")
        /\ dataPdf' = c
        /\ last' = Idle
        /\ UNCHANGED <<tasks, caseFold, dataCsv, outputs, disk, mem>>

\* The caller takes the answer of the call.
Return ==
    /\ ~Ready
    /\ last' = Idle
    /\ UNCHANGED <<tasks, caseFold, dataCsv, dataPdf, outputs, disk, mem>>

Next ==
    \/ BuildCsvIndex
    \/ BuildPdfIndex
    \/ SearchRows
    \/ SearchRowsMulti
    \/ SearchPdfChunks
    \/ SearchScriptChunks
    \/ FormatCsvForPrompt
    \/ RunShell
    \/ RetrieveScriptChunks
    \/ BuildPromptScript
    \/ Restart
    \/ ChangeCsvCorpus
    \/ ChangePdfCorpus
    \/ RemoveArtifact
    \/ Return

Spec == Init /\ [][Next]_vars

(***************************************************************************)
(* Location codes on unbounded integers                                    *)
(*                                                                         *)
(* Python's int has no width.  A code of a page above 32767 does not fit   *)
(* the integers of the model checker, so the shift, the or and the mask    *)
(* are also computed on the binary digits of the numbers (least            *)
(* significant first, no leading zero digit, <<>> for 0).                  *)
(***************************************************************************)
\* 0xFFFF
Mask16 == 65535

RECURSIVE ToBits(_)
ToBits(n) == IF n = 0 THEN <<>> ELSE <<n % 2>> \o ToBits(n \div 2)

RECURSIVE FromBits(_)
FromBits(b) == IF b = <<>> THEN 0 ELSE Head(b) + 2 * FromBits(Tail(b))

\* drop the zero digits at the most significant end
RECURSIVE Canonical(_)
Canonical(b) ==
    IF b = <<>> \/ b[Len(b)] = 1 THEN b ELSE Canonical(SubSeq(b, 1, Len(b) - 1))

BitAt(b, i) == IF i <= Len(b) THEN b[i] ELSE 0

\* x << n
ShiftLeftBits(b, n) == IF b = <<>> THEN <<>> ELSE [i \in 1..n |-> 0] \o b

\* x >> n
ShiftRightBits(b, n) == SubSeq(b, n + 1, Len(b))

\* x | y
OrBits(a, b) ==
    [i \in 1..Max(Len(a), Len(b)) |-> IF BitAt(a, i) = 1 \/ BitAt(b, i) = 1 THEN 1 ELSE 0]

\* x & y
AndBits(a, b) ==
    Canonical([i \in 1..Min(Len(a), Len(b)) |-> IF a[i] = 1 /\ b[i] = 1 THEN 1 ELSE 0])

\* a shift by 8 instead of 16
PackBits_Shift8(pno, ck) == OrBits(ShiftLeftBits(ToBits(pno), 8), ToBits(ck))

\* loc = (pno << 16) | ck
PackBits(pno, ck) == OrBits(ShiftLeftBits(ToBits(pno), 16), ToBits(ck))

\* (loc >> 16, loc & 0xFFFF)
UnpackBits(loc) ==
    <<FromBits(ShiftRightBits(loc, 16)), FromBits(AndBits(loc, ToBits(Mask16)))>>

\* pages and chunk numbers at and around the ends of the 16-bit range
SamplePages  == {1, 2, 255, 256, 32767, 32768, Mask16}
SampleChunks == {0, 1, 255, 256, 32768, Mask16}

(***************************************************************************)
(* The pure functions, applied to inputs of their own                      *)
(***************************************************************************)
InitFn ==
    /\ caseFold = FALSE
    /\ dataCsv = <<>>
    /\ dataPdf = <<>>
    /\ outputs = <<>>
    /\ disk = [kind \in Kinds |-> NoStore]
    /\ mem = [kind \in Kinds |-> NoTriple]
    /\ last = Idle
    /\ tasks = NoTasks

K_3_16_1923  == <<"3", "/", "1", "6", "/", "1", "9", "2", "3">>
K_13_5_2023  == <<"1", "3", "/", "5", "/", "2", "0", "2", "3">>
K_2_29_2024  == <<"2", "/", "2", "9", "/", "2", "0", "2", "4">>
K_2_29_2023  == <<"2", "/", "2", "9", "/", "2", "0", "2", "3">>
K_11_22_2031 == <<"1", "1", "/", "2", "2", "/", "2", "0", "3", "1">>
K_Mar_3rd_23 == <<"Mar", " ", "3", "rd", " ", "2", "0", "2", "3">>
K_Dec_21_05  == <<"December", " ", "2", "1", " ", "2", "0", "0", "5">>

\* The tokens the date functions are applied to
DateTokens ==
    { K_3_16_2023, K_03_16_2023, K_3_16_23, K_iso_3_16, K_4_1_2023, K_3d16d2023,
      K_13_45_2023, K_Total, <<>>, K_3_16_1923, K_13_5_2023, K_2_29_2024,
      K_2_29_2023, K_11_22_2031, K_Mar_3rd_23, K_Dec_21_05 }

ReparseAll(variants) == [i \in 1..Len(variants) |-> ParseDate(variants[i])]

DateVariantsOf(raw, variants, call) ==
    last' = [op |-> "date_variants", raw |-> raw, source |-> ParseDate(raw),
             variants |-> variants, reparsed |-> ReparseAll(variants),
             out |-> call.out, returned |-> call.val]

\* _date_variants(raw), each variant then read back by the date parser
DateVariants ==
    \E raw \in DateTokens, exc \in DpParseErrors :
        /\ Ready
        /\ DateVariantsOf(raw, date_variants(raw), date_variants_call(raw, exc))
        /\ UNCHANGED <<tasks, caseFold, dataCsv, dataPdf, outputs, disk, mem>>

\* The questions the date functions are applied to
DateQuestions ==
    Questions \cup
    { <<>>,
      <<"r", "a", "i", "n", " ">> \o K_Mar_3rd_23,       \* a month-name date
      K_iso_3_16 \o <<" ", "f", "l", "o", "o", "d">>,   \* an ISO date
      <<"i", "n", " ">> \o K_3_16_1923,                 \* another century
      <<"o", "n", " ">> \o K_2_29_2023 \o <<"?">> }     \* no such day

\* The tables the direct-match resolver is applied to
DateTables == { <<K_3_16_2023, K_03_16_2023, K_Total>>, <<K_4_1_2023>> }

\* The date functions on a question: the adapter's token and direct match
\* (format_csv_for_prompt, step 1), the search's augmentation
AugmentQuestion ==
    \E question \in DateQuestions, exc \in DpParseErrors, df \in DateTables :
        /\ Ready
        /\ last' = [op |-> "augment", question |-> question, exc |-> exc,
                    df |-> df,
                    token |-> extract_date_token(question),
                    direct |-> DirectStepOn(extract_date_token(question), df),
                    raw |-> augment_raw(question),
                    res |-> augment_question_with_dates(question, exc)]
        /\ UNCHANGED <<tasks, caseFold, dataCsv, dataPdf, outputs, disk, mem>>

\* two (page, chunk) pairs are packed, the first is unpacked again
PackUnpack ==
    \E p1 \in SamplePages, p2 \in SamplePages, c1 \in SampleChunks, c2 \in SampleChunks :
        /\ Ready
        /\ last' = [op |-> "pack", a |-> <<p1, c1>>, b |-> <<p2, c2>>,
                    loc_a |-> PackBits(p1, c1), loc_b |-> PackBits(p2, c2),
                    back_a |-> UnpackBits(PackBits(p1, c1))]
        /\ UNCHANGED <<tasks, caseFold, dataCsv, dataPdf, outputs, disk, mem>>

\* The spilled texts and the values SCRIPT_CHUNK_SIZE is configured to
SpillTexts ==
    { <<"a">>, <<"a", "b">>, <<"a", "b", "c">>, <<"a", "b", "c", "d">>,
      <<"a", "b", "c", "d", "e">> }

ChunkSizes == 1..(RetrieveChunkSize + 1)

AllOrdinals(items) == [i \in 1..Len(items) |-> i - 1]

ChunksOf(raw, chunk_size, items) ==
    last' = [op |-> "chunks", raw |-> raw, chunk_size |-> chunk_size,
             items |-> items,
             back |-> ChunksAt(raw, MetaOf(items), AllOrdinals(items))]

\* build_script_output_index slices a text with the configured size, then
\* retrieve_script_chunks reads every stored location back from the text
ChunkRoundTrip ==
    \E raw \in SpillTexts, chunk_size \in ChunkSizes :
        /\ Ready
        /\ ChunksOf(raw, chunk_size, ScriptItemsAt("t", raw, chunk_size))
        /\ UNCHANGED <<tasks, caseFold, dataCsv, dataPdf, outputs, disk, mem>>

\* pd.read_csv: a new frame, its attrs empty
ReadCsvFrame(rows) == [rows |-> rows, attrs |-> NoneVal]

\* pd.to_datetime(df.iloc[:, 0], errors="coerce").dt.date
ColumnDates(rows) == [i \in 1..Len(rows) |-> ParseDate(rows[i])]

\* _direct_date_slice on a frame: the column is parsed when the frame has no
\* "_dt_cache" attribute yet, and the projection is stored on the frame.
\* parses: whether the column parse ran.
DirectSliceOnFrame(date_token, frame) ==
    IF ParseDate(date_token) = NoDate
    THEN [val |-> NoneVal, frame |-> frame, parses |-> 0]
    ELSE [val |-> direct_date_slice(date_token, frame.rows).val,
          frame |-> [frame EXCEPT !.attrs = IF frame.attrs.some THEN frame.attrs
                                            ELSE Some(ColumnDates(frame.rows))],
          parses |-> IF frame.attrs.some THEN 0 ELSE 1]

\* Step 1 of format_csv_for_prompt on the frame it has just read
DirectRequestOn(token, frame) ==
    IF token.some
    THEN [token |-> token, step |-> DirectSliceOnFrame(token.val, frame)]
    ELSE [token |-> token, step |-> [val |-> NoneVal, frame |-> frame, parses |-> 0]]

\* One format_csv_for_prompt request up to its direct match: the table is
\* read into a frame of its own (csv_adapter.py:68)
DirectRequest(question, rows) ==
    DirectRequestOn(extract_date_token(question), ReadCsvFrame(rows))

\* Two requests, one after the other, on the same unchanged table
DirectMatchTwice ==
    \E q1 \in DateQuestions, q2 \in DateQuestions, rows \in DateTables :
        /\ Ready
        /\ last' = [op |-> "direct_twice", rows |-> rows,
                    first |-> DirectRequest(q1, rows),
                    second |-> DirectRequest(q2, rows)]
        /\ UNCHANGED <<tasks, caseFold, dataCsv, dataPdf, outputs, disk, mem>>

NextFn ==
    \/ PackUnpack
    \/ DirectMatchTwice
    \/ ChunkRoundTrip
    \/ DateVariants
    \/ AugmentQuestion
    \/ Return

SpecFn == InitFn /\ [][NextFn]_vars

(***************************************************************************)
(* Concurrent spill indexings                                              *)
(*                                                                         *)
(* build_script_output_index called by several threads (or processes: the  *)
(* store is a pair of files) at once, each for a spill file of its own.    *)
(* A call slices and encodes its text, then writes the index file, then    *)
(* the metadata file; nothing orders the steps of different calls.         *)
(***************************************************************************)
NThreads == 2
Threads == 1..NThreads

SpillPathOf(t) == SpillNames[t]

\* faiss.write_index(idx, str(SCRIPT_INDEX))
WriteIndex(store, items) == [store EXCEPT !.index = Some(IndexOf(items))]

\* a build that leaves the metadata file as it finds it
WriteMeta_Skipped(store, items) == store

\* pd.DataFrame({"path": paths, "loc": locs}).to_parquet(SCRIPT_META)
WriteMeta(store, items) == [store EXCEPT !.meta = Some(MetaOf(items))]

InitSpillRace ==
    /\ caseFold = FALSE
    /\ dataCsv = <<>>
    /\ dataPdf = <<>>
    /\ outputs \in [{SpillPathOf(t) : t \in Threads} -> SpillTexts \cup {<<>>}]
    /\ disk = [kind \in Kinds |-> NoStore]
    /\ mem = [kind \in Kinds |-> NoTriple]
    /\ last = Idle
    /\ tasks = [th |-> [t \in Threads |-> [pc |-> "start", items |-> <<>>]],
                writer |-> [index |-> 0, meta |-> 0]]

\* lines 162-180: read the text, slice it, encode the slices; return when
\* there is nothing to index
SpillEncode(t) ==
    /\ tasks.th[t].pc = "start"
    /\ tasks' = [tasks EXCEPT !.th[t] =
                    [pc |-> IF ScriptItems(SpillPathOf(t), outputs[SpillPathOf(t)]) = <<>>
                            THEN "done" ELSE "encoded",
                     items |-> ScriptItems(SpillPathOf(t), outputs[SpillPathOf(t)])]]
    /\ UNCHANGED <<caseFold, dataCsv, dataPdf, outputs, disk, mem, last>>

\* line 181
SpillWriteIndex(t) ==
    /\ tasks.th[t].pc = "encoded"
    /\ disk' = [disk EXCEPT !["script"] = WriteIndex(disk["script"], tasks.th[t].items)]
    /\ tasks' = [tasks EXCEPT !.th[t].pc = "index written", !.writer.index = t]
    /\ UNCHANGED <<caseFold, dataCsv, dataPdf, outputs, mem, last>>

\* line 182
SpillWriteMeta(t) ==
    /\ tasks.th[t].pc = "index written"
    /\ disk' = [disk EXCEPT !["script"] = WriteMeta(disk["script"], tasks.th[t].items)]
    /\ tasks' = [tasks EXCEPT !.th[t].pc = "done", !.writer.meta = t]
    /\ UNCHANGED <<caseFold, dataCsv, dataPdf, outputs, mem, last>>

NextSpillRace ==
    \/ \E t \in Threads : SpillEncode(t)
    \/ \E t \in Threads : SpillWriteIndex(t)
    \/ \E t \in Threads : SpillWriteMeta(t)

SpecSpillRace == InitSpillRace /\ [][NextSpillRace]_vars

(***************************************************************************)
(* Concurrent first searches                                               *)
(*                                                                         *)
(* search_rows called by several threads of one process before the triple  *)
(* is loaded; both artifacts are on disk.  _lazy_csv tests one global and  *)
(* sets the three one after the other; a thread can be scheduled between   *)
(* any two statements.                                                     *)
(***************************************************************************)
InitLazyRace ==
    /\ caseFold \in BOOLEAN
    /\ dataCsv \in CsvCorpora \ {<<>>}
    /\ dataPdf = <<>>
    /\ outputs = <<>>
    /\ disk = [kind \in Kinds |->
                 IF kind = "csv" THEN build_csv_index(NoStore).disk ELSE NoStore]
    /\ mem = [kind \in Kinds |-> NoTriple]
    /\ last = Idle
    /\ tasks = [th |-> [t \in Threads |-> [pc |-> "start", seen |-> NoTriple,
                                           out |-> Returned]]]

\* line 208: if _csv_idx is not None: return
LazyGuard(t) ==
    /\ tasks.th[t].pc = "start"
    /\ tasks' = [tasks EXCEPT !.th[t].pc =
                    IF mem["csv"].idx.some THEN "search" ELSE "exists"]
    /\ UNCHANGED <<caseFold, dataCsv, dataPdf, outputs, disk, mem, last>>

\* lines 210-212: build when an artifact is missing
LazyExists(t) ==
    /\ tasks.th[t].pc = "exists"
    /\ disk' = [disk EXCEPT !["csv"] =
                    IF StoreMissing(disk["csv"]) THEN build_csv_index(disk["csv"]).disk
                    ELSE disk["csv"]]
    /\ tasks' = [tasks EXCEPT !.th[t].pc = "read index"]
    /\ UNCHANGED <<caseFold, dataCsv, dataPdf, outputs, mem, last>>

\* line 213: _csv_idx = faiss.read_index(...)
LazyReadIndex(t) ==
    /\ tasks.th[t].pc = "read index"
    /\ mem' = [mem EXCEPT !["csv"].idx = disk["csv"].index]
    /\ tasks' = [tasks EXCEPT !.th[t].pc = "read meta"]
    /\ UNCHANGED <<caseFold, dataCsv, dataPdf, outputs, disk, last>>

\* line 214: _csv_meta = pd.read_parquet(...)
LazyReadMeta(t) ==
    /\ tasks.th[t].pc = "read meta"
    /\ mem' = [mem EXCEPT !["csv"].meta = disk["csv"].meta]
    /\ tasks' = [tasks EXCEPT !.th[t].pc = "load embedder"]
    /\ UNCHANGED <<caseFold, dataCsv, dataPdf, outputs, disk, last>>

\* line 215: _csv_embed = SentenceTransformer(...)
LazyLoadEmbedder(t) ==
    /\ tasks.th[t].pc = "load embedder"
    /\ mem' = [mem EXCEPT !["csv"].embed = TRUE]
    /\ tasks' = [tasks EXCEPT !.th[t].pc = "search"]
    /\ UNCHANGED <<caseFold, dataCsv, dataPdf, outputs, disk, last>>

\* The body of search_rows after _lazy_csv with the globals as they are:
\* _csv_embed.encode on a global that is still None raises AttributeError
SearchWithGlobals(m, d, rank, csv_path, k) ==
    IF ~m.embed \/ ~m.meta.some THEN NoSearch(Raised("AttributeError"))
    ELSE search_rows(Loaded(m, d), rank, csv_path, k)

\* lines 245-262
ThreadSearch(t) ==
    \E csv_path \in CsvPaths, k \in Ks,
       rank \in Rankings(mem["csv"].idx.val) \cup {BackendDown} :
        /\ tasks.th[t].pc = "search"
        /\ tasks' = [tasks EXCEPT !.th[t] =
                        [pc |-> "done", seen |-> mem["csv"],
                         out |-> SearchWithGlobals(mem["csv"], disk["csv"], rank,
                                                   csv_path, k).out]]
        /\ UNCHANGED <<caseFold, dataCsv, dataPdf, outputs, disk, mem, last>>

NextLazyRace ==
    \/ \E t \in Threads : LazyGuard(t)
    \/ \E t \in Threads : LazyExists(t)
    \/ \E t \in Threads : LazyReadIndex(t)
    \/ \E t \in Threads : LazyReadMeta(t)
    \/ \E t \in Threads : LazyLoadEmbedder(t)
    \/ \E t \in Threads : ThreadSearch(t)

SpecLazyRace == InitLazyRace /\ [][NextLazyRace]_vars

(***************************************************************************)
(* Requests on one event loop                                              *)
(*                                                                         *)
(* Each coroutine is _build_prompt with one script query.  The loop thread *)
(* runs one coroutine at a time and gets the loop back only where the      *)
(* coroutine awaits something that is not finished; the script's process   *)
(* runs on a worker thread.  tasks.loop is the coroutine the loop thread   *)
(* is executing, 0 when it is free.                                        *)
(***************************************************************************)
NCoroutines == 2
Coroutines == 1..NCoroutines

\* a suspension that comes back to the loop before the retrieval as well
Awaits_BeforeRetrieval(pc) == pc \in {"exec", "retrieve"}

\* the stage at which a coroutine is suspended: await asyncio.to_thread(...)
Awaits(pc) == pc = "exec"

\* the loop thread can execute the next statement of c
MayRun(c) ==
    \/ tasks.loop = c
    \/ tasks.loop = 0 /\ tasks.co[c].pc \notin {"exec", "done"}

\* who holds the loop thread after c reached pc
Holder(c, pc) == IF Awaits(pc) \/ pc = "done" THEN 0 ELSE c

NewCoroutine(proc) ==
    [pc |-> "new", proc |-> proc, out |-> Returned, path |-> "", items |-> <<>>,
     built |-> NoStore, ret |-> <<>>, target |-> "", from |-> NoStore,
     chunks |-> <<>>, retrieved |-> FALSE]

InitLoop ==
    /\ caseFold \in BOOLEAN
    /\ dataCsv = <<>> /\ dataPdf = <<>>
    /\ outputs = <<>>
    /\ disk = [kind \in Kinds |-> NoStore]
    /\ mem = [kind \in Kinds |-> NoTriple]
    /\ last = Idle
    /\ \E procs \in [Coroutines -> Procs] :
          tasks = [loop |-> 0, co |-> [c \in Coroutines |-> NewCoroutine(procs[c])]]

\* c goes to pc with the fields of `upd` changed
Step(c, upd) ==
    tasks' = [loop |-> Holder(c, upd.pc),
              co |-> [tasks.co EXCEPT ![c] =
                        [f \in DOMAIN tasks.co[c] |->
                            IF f \in DOMAIN upd THEN upd[f] ELSE tasks.co[c][f]]]]

\* shell_service.py 52-66: the existence check, then the process is handed
\* to a worker thread and the coroutine waits
LoopStart(c) ==
    /\ tasks.co[c].pc = "new" /\ MayRun(c)
    /\ IF tasks.co[c].proc.exists
       THEN Step(c, [pc |-> "exec"])
       ELSE Step(c, [pc |-> "done", out |-> Raised("FileNotFoundError")])
    /\ UNCHANGED <<caseFold, dataCsv, dataPdf, outputs, disk, mem, last>>

\* _blocking_exec on the worker thread: whoever holds the loop
WorkerExec(c) ==
    /\ tasks.co[c].pc = "exec"
    /\ tasks' = [tasks EXCEPT !.co[c].pc = "ready"]
    /\ UNCHANGED <<caseFold, dataCsv, dataPdf, outputs, disk, mem, last>>

\* the await of line 66 returns or raises; lines 69-70
LoopResume(c) ==
    /\ tasks.co[c].pc = "ready" /\ MayRun(c)
    /\ IF tasks.co[c].proc.rc # 0
       THEN Step(c, [pc |-> "done", out |-> Raised("RuntimeError")])
       ELSE IF Len(tasks.co[c].proc.stdout) > MaxOutputChars
       THEN Step(c, [pc |-> "spill"])
       ELSE Step(c, [pc |-> "format", ret |-> tasks.co[c].proc.stdout])
    /\ UNCHANGED <<caseFold, dataCsv, dataPdf, outputs, disk, mem, last>>

\* lines 71-76: the spill file
LoopSpill(c) ==
    /\ tasks.co[c].pc = "spill" /\ MayRun(c)
    /\ outputs' = [p \in DOMAIN outputs \cup {FreshSpill} |->
                     IF p = FreshSpill THEN tasks.co[c].proc.stdout ELSE outputs[p]]
    /\ Step(c, [pc |-> "encode", path |-> FreshSpill])
    /\ UNCHANGED <<caseFold, dataCsv, dataPdf, disk, mem, last>>

\* line 80, build_script_output_index called as a plain function:
\* vector_index.py 162-180
LoopEncode(c) ==
    /\ tasks.co[c].pc = "encode" /\ MayRun(c)
    /\ IF ScriptItems(tasks.co[c].path, outputs[tasks.co[c].path]) = <<>>
       THEN Step(c, [pc |-> "format", ret |-> Sentinel(tasks.co[c].path)])
       ELSE Step(c, [pc |-> "write index",
                     items |-> ScriptItems(tasks.co[c].path, outputs[tasks.co[c].path])])
    /\ UNCHANGED <<caseFold, dataCsv, dataPdf, outputs, disk, mem, last>>

\* vector_index.py 181
LoopWriteIndex(c) ==
    /\ tasks.co[c].pc = "write index" /\ MayRun(c)
    /\ disk' = [disk EXCEPT !["script"] = WriteIndex(@, tasks.co[c].items)]
    /\ Step(c, [pc |-> "write meta"])
    /\ UNCHANGED <<caseFold, dataCsv, dataPdf, outputs, mem, last>>

\* vector_index.py 182, then run_shell returns the marker (line 83)
LoopWriteMeta(c) ==
    /\ tasks.co[c].pc = "write meta" /\ MayRun(c)
    /\ disk' = [disk EXCEPT !["script"] = WriteMeta(@, tasks.co[c].items)]
    /\ Step(c, [pc |-> "format", ret |-> Sentinel(tasks.co[c].path),
                built |-> WriteMeta(disk["script"], tasks.co[c].items)])
    /\ UNCHANGED <<caseFold, dataCsv, dataPdf, outputs, mem, last>>

FormatStep(c, snippet, pos) ==
    IF pos = 0
    THEN Step(c, [pc |-> "done", ret |-> snippet])
    ELSE IF pos = Len(snippet)
    THEN Step(c, [pc |-> "done", out |-> Raised("IndexError")])
    ELSE Step(c, [pc |-> "retrieve", target |-> snippet[pos + 1]])

\* format_shell_for_prompt returns to _build_prompt, which looks for the
\* marker: generation_service.py 113-119
LoopFormat(c) ==
    /\ tasks.co[c].pc = "format" /\ MayRun(c)
    /\ FormatStep(c,
          format_shell_for_prompt("script.py",
              [out |-> Returned, ret |-> tasks.co[c].ret]).snippet,
          MarkerPos(format_shell_for_prompt("script.py",
              [out |-> Returned, ret |-> tasks.co[c].ret]).snippet))
    /\ UNCHANGED <<caseFold, dataCsv, dataPdf, outputs, disk, mem, last>>

RetrieveStep(c, res) ==
    Step(c, [pc |-> "done", out |-> res.out, chunks |-> res.chunks,
             from |-> disk["script"], retrieved |-> TRUE])

\* generation_service.py 121: retrieve_script_chunks called as a plain function
LoopRetrieve(c) ==
    /\ tasks.co[c].pc = "retrieve" /\ MayRun(c)
    /\ \E rank \in RanksOnDisk(disk["script"]) :
          RetrieveStep(c, retrieve_script_chunks_in(outputs, tasks.co[c].target,
                                                    rank, TOP_K, disk["script"]))
    /\ UNCHANGED <<caseFold, dataCsv, dataPdf, outputs, disk, mem, last>>

NextLoop ==
    \/ \E c \in Coroutines : LoopStart(c)
    \/ \E c \in Coroutines : WorkerExec(c)
    \/ \E c \in Coroutines : LoopResume(c)
    \/ \E c \in Coroutines : LoopSpill(c)
    \/ \E c \in Coroutines : LoopEncode(c)
    \/ \E c \in Coroutines : LoopWriteIndex(c)
    \/ \E c \in Coroutines : LoopWriteMeta(c)
    \/ \E c \in Coroutines : LoopFormat(c)
    \/ \E c \in Coroutines : LoopRetrieve(c)

SpecLoop == InitLoop /\ [][NextLoop]_vars

(***************************************************************************)
(* Properties                                                              *)
(***************************************************************************)
IsSearch(kind) == last.op = "search" /\ last.kind = kind
SearchAnswered == last.op = "search" /\ last.res.out.ok

\* the metadata row of ordinal i of the table the last search used
RowOf(i) == last.meta.val[i + 1]

SameFile(kind, p, q) == Stat(kind, p) # NoFile /\ Stat(kind, p) = Stat(kind, q)

\* what a search returns for a location code
Shown(kind, loc) == IF kind = "pdf" THEN <<loc \div 65536, loc % 65536>> ELSE loc

\* every entry of the answer is the location code of a kept metadata row
\* whose path is the same file as the target
AnswerScoped ==
    /\ Len(last.res.result) = Len(last.res.kept)
    /\ \A j \in 1..Len(last.res.kept) :
          /\ SameFile(last.kind, RowOf(last.res.kept[j]).path, last.target)
          /\ last.res.result[j] = Shown(last.kind, RowOf(last.res.kept[j]).loc)

\* C1: every location code a single-file search (search_rows, search_pdf_chunks,
\* search_script_chunks) returns comes from a metadata row whose path denotes
\* the same file as the target, and the answer holds at most k entries.
C1_SearchScopedAndCapped ==
    SearchAnswered => AnswerScoped /\ Len(last.res.result) <= last.k

\* C1, for k >= 1 only: the scoping and the cap both hold.
C1_ScopedAndCappedForPositiveK ==
    SearchAnswered /\ last.k >= 1 => AnswerScoped /\ Len(last.res.result) <= last.k

\* the candidates of the pool: the hits before the first -1
RECURSIVE PoolOf(_)
PoolOf(hits) ==
    IF hits = <<>> \/ Head(hits) < 0 THEN <<>> ELSE <<Head(hits)>> \o PoolOf(Tail(hits))

\* the candidates of the pool that belong to path p, in pool order
BelongingTo(hits, meta, p) ==
    SelectSeq(PoolOf(hits), LAMBDA i : SameFile("csv", meta[i + 1].path, p))

FirstN(seq, n) == SubSeq(seq, 1, Min(n, Len(seq)))

MultiAnswered == last.op = "search_rows_multi" /\ last.res.out.ok

\* C2: in search_rows_multi the list of each requested path is exactly the
\* first min(k, n_p) pool candidates of that path, in pool order, whatever
\* happens to the other paths, and at most max(200, k) candidates are scanned.
C2_MultiExactPerPath ==
    MultiAnswered =>
        /\ Len(last.res.hits) = Max(PoolFloor, last.k)
        /\ last.res.scanned <= Max(PoolFloor, last.k)
        /\ \A p \in last.targets :
              /\ last.res.kept[p] =
                    FirstN(BelongingTo(last.res.hits, last.meta.val, p), last.k)
              /\ last.res.result[p] =
                    [j \in 1..Len(last.res.kept[p]) |-> RowOf(last.res.kept[p][j]).loc]

\* position of ordinal i in the hits (0 when absent)
PosIn(hits, i) ==
    IF \E n \in 1..Len(hits) : hits[n] = i
    THEN CHOOSE n \in 1..Len(hits) : hits[n] = i ELSE 0

\* C2 witness: one path is full (k results) and another path takes a candidate
\* that ranks after the last one of the full path; the index holds more
\* vectors than the pool.
C2_Witness ==
    /\ MultiAnswered
    /\ last.k >= 1
    /\ Len(last.meta.val) > Len(last.res.hits)
    /\ \E p \in last.targets, q \in last.targets :
          /\ Len(last.res.kept[p]) = last.k
          /\ last.res.kept[q] # <<>>
          /\ last.res.kept[q] # last.res.kept[p]
          /\ PosIn(last.res.hits, last.res.kept[q][Len(last.res.kept[q])])
                > PosIn(last.res.hits, last.res.kept[p][last.k])

IsFormat == last.op = "format_csv_for_prompt"

\* the table the last format_csv_for_prompt call read
TableOf == dataCsv[StatCsv(last.target)]
TokenOf == extract_date_token(last.question)

\* the rows whose key is the same calendar date as the token
SameDateRows ==
    {i \in 0..(Len(TableOf) - 1) :
        /\ ParseDate(TokenOf.val) # NoDate
        /\ ParseDate(TableOf[i + 1]) = ParseDate(TokenOf.val)}

FormatRead == IsFormat /\ StatCsv(last.target) # NoFile

DirectHit  == FormatRead /\ TokenOf.some /\ SameDateRows # {}
DirectMiss == FormatRead /\ (~TokenOf.some \/ SameDateRows = {})

C4_MissFallsThrough ==
    DirectMiss =>
        /\ last.res.searches = <<[path |-> last.target, k |-> MAX_ROWS]>>
        /\ last.res.out.exc \notin {"ValueError", "TypeError"}

\* C4 witness: a token that matches the pattern but is no date, and the call
\* returns rows found by the search.
C4_Witness ==
    /\ DirectMiss
    /\ TokenOf.some /\ ParseDate(TokenOf.val) = NoDate
    /\ last.res.out.ok
    /\ last.res.rows # <<>>

ExactYieldsNothing == FormatRead /\ TokenOf.some /\ SameDateRows = {}

LooseRows == LooseMatches(TokenOf.val, TableOf)

\* C5: when the exact date comparison yields no row (or the token does not
\* parse), the resolver returns the rows whose raw key contains the token with
\* its leading zeros stripped, and reports absent only when there is none.
C5_LooseSecondTier ==
    ExactYieldsNothing =>
        IF LooseRows = {} THEN last.res.direct = NoneVal
        ELSE /\ last.res.direct.some
             /\ last.res.rows # <<>>
             /\ \A j \in 1..Len(last.res.rows) : last.res.rows[j] \in LooseRows

\* C5, as the code has it: the resolver returns rows exactly when some key is
\* the same calendar date as the token; when there is none it reports absent,
\* whatever the raw keys contain, and the semantic search runs.
C5_ExactTierOnly ==
    FormatRead /\ TokenOf.some =>
        /\ last.res.direct.some <=> SameDateRows # {}
        /\ ExactYieldsNothing => last.res.direct = NoneVal /\ Len(last.res.searches) = 1

\* C5 witness: no key is the token's date, a raw key contains the token, and
\* the resolver reported absent.
C5_Witness ==
    /\ ExactYieldsNothing
    /\ LooseRows # {}
    /\ last.res.direct = NoneVal
    /\ last.res.out.ok

RanShell == last.op = "run_shell" /\ last.res.out.ok

Overflowed == Len(last.proc.stdout) > MaxOutputChars

\* the value returned is the sentinel of a file this call created
ReturnedSentinel ==
    \E path \in DOMAIN outputs \ last.had : last.res.ret = Sentinel(path)

\* the store holds the slices of text, in order, all recorded for path
SpillStoreOf(path, text, store) ==
    /\ store.index.some /\ store.meta.some
    /\ Len(store.index.val) = Len(store.meta.val)
    /\ Len(store.meta.val) * ScriptChunkSize >= Len(text)
    /\ (Len(store.meta.val) - 1) * ScriptChunkSize < Len(text)
    /\ \A i \in 1..Len(store.meta.val) :
          /\ store.meta.val[i] = [path |-> path, loc |-> (i - 1) * ScriptChunkSize]
          /\ store.index.val[i].vec =
                Embed(SubSeq(text, (i - 1) * ScriptChunkSize + 1,
                             Min(i * ScriptChunkSize, Len(text))))

\* C6: run_shell returns the sentinel of a spill file exactly when the stdout
\* is longer than MAX_OUTPUT_CHARS; then the file holds the whole stdout and
\* the transient-text store is the index of that file; otherwise the stdout is
\* returned as it is, no file is written and the store is as it was.
C6_SentinelIffOverflow ==
    RanShell =>
        /\ ReturnedSentinel <=> Overflowed
        /\ Overflowed =>
              /\ outputs[last.res.ret[2]] = last.proc.stdout
              /\ SpillStoreOf(last.res.ret[2], last.proc.stdout, disk["script"])
        /\ ~Overflowed =>
              /\ last.res.ret = last.proc.stdout
              /\ DOMAIN outputs = last.had
              /\ disk["script"] = last.before

\* C6 witness: a second spill, of a text of several slices, replaced the store
\* of the first.
C6_Witness ==
    /\ RanShell /\ Overflowed
    /\ last.had # {}
    /\ last.before.meta.some
    /\ Len(disk["script"].meta.val) >= 2
    /\ disk["script"] # last.before

LatestSpill == SpillNames[Cardinality(DOMAIN outputs)]

\* C7: search_script_chunks returns at least one location code for the most
\* recently spilled file and none for an earlier one.
C7_OnlyLatestSpillRetrievable ==
    IsSearch("script") /\ last.res.out.ok /\ last.target \in DOMAIN outputs =>
        IF last.target = LatestSpill
        THEN last.res.result # <<>> /\ AnswerScoped
        ELSE last.res.result = <<>>

IsRetrieve == last.op = "retrieve_script_chunks"

\* C8: what is obtained for a spilled file P comes only from index entries
\* whose metadata path is P, through search_script_chunks and through
\* retrieve_script_chunks.
C8_ChunksOnlyFromOwnEntries ==
    /\ IsSearch("script") /\ last.res.out.ok =>
          \A j \in 1..Len(last.res.kept) : RowOf(last.res.kept[j]).path = last.target
    /\ IsRetrieve /\ last.res.out.ok =>
          \A j \in 1..Len(last.res.chunks) :
              RowOf(last.res.chunks[j].row).path = last.target

\* C8, search_script_chunks alone: the kept entries are recorded for the target.
C8_SearchScriptChunksScoped ==
    IsSearch("script") /\ last.res.out.ok =>
        \A j \in 1..Len(last.res.kept) : RowOf(last.res.kept[j]).path = last.target

\* vector i and metadata row i come from the same unit
Aligned(store) ==
    /\ Len(store.index.val) = Len(store.meta.val)
    /\ \A i \in 1..Len(store.meta.val) : store.meta.val[i] = store.index.val[i].src

\* the store holds the units `items`, in their order
HoldsInOrder(store, items) ==
    /\ store.index.some /\ store.meta.some
    /\ Len(store.index.val) = Len(items)
    /\ Len(store.meta.val) = Len(items)
    /\ \A i \in 1..Len(items) :
          /\ store.index.val[i].vec = Embed(items[i].text)
          /\ store.meta.val[i].path = items[i].path
          /\ store.meta.val[i].loc = items[i].loc

BuildDone == last.op = "build" /\ last.out.ok

\* C9: every persisted store has as many metadata rows as vectors and row i
\* describes the unit encoded into vector i; after a completed build the store
\* holds the units of the decomposition, in its order.
C9_MetaRowsMatchVectors ==
    /\ \A kind \in Kinds :
          disk[kind].index.some /\ disk[kind].meta.some => Aligned(disk[kind])
    /\ BuildDone => HoldsInOrder(disk[last.kind], last.items)
    /\ RanShell /\ Overflowed =>
          HoldsInOrder(disk["script"], ScriptItems(last.res.ret[2], last.proc.stdout))

\* C9 witness: a build over a store that was there, of units of two files.
C9_Witness ==
    /\ BuildDone
    /\ last.before.index.some /\ last.before.meta.some
    /\ Len(disk[last.kind].meta.val) >= 3
    /\ \E i, j \in 1..Len(disk[last.kind].meta.val) :
          disk[last.kind].meta.val[i].path # disk[last.kind].meta.val[j].path

ArtifactMissing(store) == ~store.index.some \/ ~store.meta.some

FirstSearchOnMissing ==
    /\ last.op \in {"search", "search_rows_multi"}
    /\ last.kind \in {"csv", "pdf"}
    /\ last.first
    /\ ArtifactMissing(last.before)

\* C10: when an artifact of the tabular or document store is missing at the
\* first search of a process, the search queries the index only after a full
\* build of the current corpus, loaded from the disk, and does not fail on
\* reading the store.
C10_MissingArtifactBuildsFirst ==
    FirstSearchOnMissing =>
        /\ last.res.out.exc \notin {"ReadIndexError", "ReadMetaError"}
        /\ CorpusItems(last.kind) # <<>> => last.built
        /\ last.res.hits # <<>> =>
              /\ last.built
              /\ HoldsInOrder(disk[last.kind], CorpusItems(last.kind))
              /\ mem[last.kind].idx = disk[last.kind].index
              /\ mem[last.kind].meta = disk[last.kind].meta
              /\ last.meta = disk[last.kind].meta

\* C10 witness: only the metadata file was missing, and the search answered
\* from the rebuilt store.
C10_Witness ==
    /\ FirstSearchOnMissing
    /\ last.before.index.some
    /\ last.built
    /\ last.res.out.ok
    /\ last.op = "search" /\ last.res.result # <<>>

EnsureLoadedOps == {"search", "search_rows_multi", "format_csv_for_prompt"}

\* C12: once a store is loaded in a process, a call that goes through
\* _lazy_csv, _lazy_pdf or _lazy_script leaves the loaded triple as it is and
\* leaves the artifacts of that store on disk as they are (no rebuild),
\* whatever is on the disk by then.
C12_LoadedIsMemoized ==
    [][last'.op \in EnsureLoadedOps =>
          \A kind \in Kinds :
              mem[kind].idx.some =>
                  mem'[kind] = mem[kind] /\ disk'[kind] = disk[kind]]_vars

\* C12 witness: a search by a process that had loaded the store, made when an
\* artifact was no longer on the disk; it rebuilt nothing and answered.
C12_Witness ==
    /\ last.op = "search"
    /\ ~last.first
    /\ ArtifactMissing(last.before)
    /\ disk[last.kind] = last.before
    /\ mem[last.kind].idx.some
    /\ last.res.out.ok
    /\ last.res.result # <<>>

\* a search whose lazy loader had to build, over a corpus without units
LazyBuildOnEmpty == FirstSearchOnMissing /\ CorpusItems(last.kind) = <<>>

\* C13: build_csv_index or build_pdf_index over a corpus without units raises
\* to its caller (the command line, or the search whose loader called it) and
\* leaves the index file and the metadata file as they were.
C13_EmptyCorpusBuildFails ==
    /\ last.op = "build" /\ last.items = <<>> =>
          /\ last.out = Raised("RuntimeError")
          /\ disk[last.kind] = last.before
    /\ LazyBuildOnEmpty =>
          /\ last.res.out = Raised("RuntimeError")
          /\ disk[last.kind] = last.before
          /\ mem[last.kind] = NoTriple

\* C13 witness: the store of an earlier corpus was on disk, whole, when the
\* build over the emptied corpus failed.
C13_Witness ==
    /\ last.op = "build" /\ last.items = <<>>
    /\ last.before.index.some /\ last.before.meta.some
    /\ ~last.out.ok
    /\ disk[last.kind] = last.before

CorpusBuildDone == BuildDone /\ last.kind \in {"csv", "pdf"}

\* the store that was on disk before the last build was a build of the corpus
\* as it is now
BuiltBeforeFromSameCorpus ==
    CorpusBuildDone /\ HoldsInOrder(last.before, CorpusItems(last.kind))

\* C14: a build over the corpus an earlier build was made from leaves a
\* metadata table with the same rows in the same order, and replaces the
\* earlier store: the number of vectors is the number of units of the corpus.
C14_RebuildIsIdempotent ==
    /\ CorpusBuildDone =>
          /\ Len(disk[last.kind].index.val) = Len(CorpusItems(last.kind))
          /\ Len(disk[last.kind].meta.val) = Len(CorpusItems(last.kind))
    /\ BuiltBeforeFromSameCorpus =>
          /\ disk[last.kind].meta = last.before.meta
          /\ disk[last.kind].index = last.before.index

\* C14 witness: a second build over the same corpus of several units.
C14_Witness ==
    /\ BuiltBeforeFromSameCorpus
    /\ Len(CorpusItems(last.kind)) >= 2
    /\ disk[last.kind] = last.before

CorpusSearchAnswered ==
    /\ last.op \in {"search", "search_rows_multi"}
    /\ last.kind \in {"csv", "pdf"}
    /\ last.res.out.ok

\* the (index, metadata) pair the process holds, as a store
LoadedStore(kind) == [index |-> mem[kind].idx, meta |-> mem[kind].meta]

\* C15: a tabular or document search is served from an index that is the full
\* build of the corpus as it is at the search, and every row ordinal
\* search_rows returns is a row of the current file.
C15_SearchesReflectCorpus ==
    /\ CorpusSearchAnswered =>
          HoldsInOrder(LoadedStore(last.kind), CorpusItems(last.kind))
    /\ IsSearch("csv") /\ last.res.out.ok =>
          \A j \in 1..Len(last.res.result) :
              last.res.result[j] < Len(dataCsv[StatCsv(last.target)])

\* C15, the second half alone: the ordinals search_rows returns are rows of
\* the current file.
C15_OrdinalsAreRowsOfTheFile ==
    IsSearch("csv") /\ last.res.out.ok =>
        \A j \in 1..Len(last.res.result) :
            last.res.result[j] < Len(dataCsv[StatCsv(last.target)])

\* the largest page whose code fits the integers of the model
FitsInt(pair) == pair[1] <= 32767

\* C16: for a page in 1..65535 and a chunk in 0..65535, unpacking the code
\* (page << 16) | chunk gives the page and the chunk back, and two different
\* pairs have different codes; where the code fits, the integer form used by
\* the document store agrees with the binary one.
C16_LocationCodeRoundTrip ==
    last.op = "pack" =>
        /\ last.back_a = last.a
        /\ last.a # last.b => last.loc_a # last.loc_b
        /\ FitsInt(last.a) =>
              /\ PackLoc(last.a[1], last.a[2]) = FromBits(last.loc_a)
              /\ UnpackLocs(<<PackLoc(last.a[1], last.a[2])>>) = <<last.a>>

\* C16 witness: the largest page with the largest chunk, against a pair that
\* shares its chunk.
C16_Witness ==
    /\ last.op = "pack"
    /\ last.a = <<Mask16, Mask16>>
    /\ last.b = <<1, Mask16>>
    /\ last.back_a = last.a
    /\ Len(last.loc_a) = 32

(***************************************************************************)
(* C17  Every spelling _date_variants generates for a token (numeric with  *)
(* slashes, zero-padded, two-digit year, ISO, long and abbreviated month   *)
(* name, ordinal day) reads back as the calendar date the token denotes.   *)
(* Violated: the two-digit-year spelling keeps only the last two digits of *)
(* the year, so a date of another century reads back a hundred years off.  *)
(***************************************************************************)
GaveVariants == last.op = "date_variants" /\ last.variants # <<>>

C17_VariantsReparseToSource ==
    GaveVariants =>
        \A i \in 1..Len(last.variants) : last.reparsed[i] = last.source

\* what does hold: every spelling but the two-digit-year one reads back as
\* the source date, and that one does when the year is within the century
\* a two-digit year is read in
TwoDigitYearSpelling == 3

C17_ClosedButForTwoDigitYear ==
    GaveVariants =>
        \A i \in 1..Len(last.variants) :
            (i # TwoDigitYearSpelling \/ last.source.y \in 2000..2099)
                => last.reparsed[i] = last.source

C17_Witness ==
    /\ GaveVariants
    /\ Len(last.variants) = 8
    /\ last.source.y = 1923
    /\ last.reparsed[TwoDigitYearSpelling].y = 2023

(***************************************************************************)
(* C18  A token that is no date gives no variants and a question with no   *)
(* date in it comes back from the augmentation unchanged; the token        *)
(* extraction, the variant generation, the augmentation and the direct     *)
(* match's date parse return whatever the input string, they never raise.  *)
(***************************************************************************)
IsAugment == last.op = "augment"

\* the question has no token, or one that is no date
NoDateInQuestion == ~last.raw.some \/ ParseDate(last.raw.val) = NoDate

C18_DateFunctionsFailSoft ==
    /\ last.op = "date_variants" =>
          /\ last.out.ok
          /\ last.source = NoDate => last.returned = <<>>
    /\ IsAugment =>
          /\ last.res.out.ok
          /\ last.direct.out.ok
          /\ NoDateInQuestion => last.res.val = last.question

\* a question whose token matches the pattern and is no date, the parser
\* failing with the error that is not a ValueError
C18_Witness ==
    /\ IsAugment
    /\ last.exc = "OverflowError"
    /\ last.token.some /\ last.raw.some
    /\ ParseDate(last.raw.val) = NoDate
    /\ last.res.val = last.question
    /\ last.direct.out.ok /\ ~last.direct.df_prev.some

(***************************************************************************)
(* C19  The direct-match resolver takes its date token by the rule the     *)
(* question augmentation uses (first match of the numeric pattern with '/' *)
(* or '-', else the lenient parse of the whole question): a question has a *)
(* token for the direct match exactly when it has one for augmentation.    *)
(* Violated: _extract_date_token knows '/' only and has no lenient parse.  *)
(***************************************************************************)
C19_SameTokenRule ==
    IsAugment =>
        /\ last.token.some <=> last.raw.some
        /\ NumDateSearch(last.question).some =>
               last.token = NumDateSearch(last.question)

\* what does hold: a token of the direct match is the token of augmentation
C19_DirectTokenIsAugmentToken ==
    IsAugment /\ last.token.some => last.raw = last.token

(***************************************************************************)
(* C20  When the file identity of a candidate cannot be established (its   *)
(* metadata path, or the target path, names no file on disk), the search   *)
(* compares the normalized path strings instead and completes with a       *)
(* result; it does not raise.                                              *)
(* Violated: samefile is called unguarded and its FileNotFoundError leaves *)
(* the search; there is no comparison of normalized strings.               *)
(***************************************************************************)
IdentityFails(i) ==
    \/ Stat(last.kind, RowOf(i).path) = NoFile
    \/ Stat(last.kind, last.target) = NoFile

\* the search reached the walk over the candidates and one of them is a
\* metadata row whose identity with the target cannot be established
CandidateUnresolvable ==
    /\ last.op = "search"
    /\ \E j \in 1..Len(last.res.hits) :
          /\ last.res.hits[j] >= 0 /\ last.res.hits[j] < Len(last.meta.val)
          /\ IdentityFails(last.res.hits[j])

C20_IdentityFailureFallsBack ==
    CandidateUnresolvable =>
        /\ last.res.out.ok
        /\ \A j \in 1..Len(last.res.kept) :
              Norm(RowOf(last.res.kept[j]).path) = Norm(last.target)

(***************************************************************************)
(* C21  When the embedding or nearest-neighbour backend fails during a     *)
(* semantic search, the search propagates the failure and the adapter that *)
(* called it falls back to a default slice of the source (the first rows)  *)
(* and still returns a snippet.                                            *)
(* Violated: the adapter calls search_rows unguarded, the failure leaves   *)
(* format_csv_for_prompt; its fallback is for an empty answer only.        *)
(***************************************************************************)
FormatReachedSearch == IsFormat /\ last.res.searches # <<>>

\* the first rows of the table the adapter read
DefaultSlice == [j \in 1..Min(MAX_ROWS, Len(TableOf)) |-> j - 1]

C21_BackendFailureFallsBack ==
    FormatReachedSearch /\ last.backend = BackendDown =>
        last.res.out.ok /\ last.res.rows = DefaultSlice

\* what does hold: a search that answers with nothing gives the default slice
C21_EmptyAnswerFallsBack ==
    FormatReachedSearch /\ last.res.out.ok /\ last.found = <<>> =>
        last.res.rows = DefaultSlice

(***************************************************************************)
(* C25  A single-file search returns exactly the first min(k, n) pool      *)
(* candidates that belong to the target file, in similarity order, n being *)
(* the number of pool candidates of that file; the pool holds max(200, k)  *)
(* candidates and the walk stops as soon as k are kept.                    *)
(* Violated for k = 0: the walk tests the count after appending, so the    *)
(* first candidate of the file is returned.                                *)
(***************************************************************************)
BelongingIn(kind, hits, meta, p) ==
    SelectSeq(PoolOf(hits), LAMBDA i : SameFile(kind, meta[i + 1].path, p))

SearchWalked == SearchAnswered /\ last.res.hits # <<>>

ExactFirstK ==
    /\ Len(last.res.hits) = Max(PoolFloor, last.k)
    /\ last.res.kept =
          FirstN(BelongingIn(last.kind, last.res.hits, last.meta.val, last.target),
                 last.k)
    /\ Len(last.res.kept) = last.k =>
          last.res.scanned = PosIn(last.res.hits, last.res.kept[last.k])

C25_SearchExactFirstK == SearchWalked => ExactFirstK

\* what does hold: the same for every k >= 1
C25_ExactFirstKForPositiveK == SearchWalked /\ last.k >= 1 => ExactFirstK

(***************************************************************************)
(* C26  search_rows_multi stops examining candidates as soon as every      *)
(* requested file has its k results: no later candidate is resolved        *)
(* against the metadata table or compared with a target path.              *)
(* Violated: the walk has no such exit, it ends only with the pool.        *)
(***************************************************************************)
AllFull == \A p \in last.targets : Len(last.res.kept[p]) >= last.k

\* the position in the pool of the last candidate any requested file kept
LastKeptPos ==
    Max(0, CHOOSE n \in 0..Len(last.res.hits) :
               /\ n = 0 \/ \E p \in last.targets :
                            \E j \in 1..Len(last.res.kept[p]) :
                                last.res.hits[n] = last.res.kept[p][j]
               /\ \A p \in last.targets : \A j \in 1..Len(last.res.kept[p]) :
                      PosIn(last.res.hits, last.res.kept[p][j]) <= n)

C26_MultiStopsWhenAllFull ==
    MultiAnswered /\ AllFull => last.res.scanned = LastKeptPos

\* what does hold: the walk examines the whole pool
C26_MultiWalksWholePool ==
    MultiAnswered => last.res.scanned = Len(PoolOf(last.res.hits))

(***************************************************************************)
(* C29  For every location the spill indexer stores for a spilled file,    *)
(* the text retrieve_script_chunks returns for it is the slice that was    *)
(* embedded, whatever SCRIPT_CHUNK_SIZE is configured; the locations are   *)
(* the offsets 0, c, 2c, ... and the slices in that order concatenate to   *)
(* the whole text.                                                         *)
(* Violated: the retrieval cuts chunks of its own fixed size, so with any  *)
(* other configured size it returns a text that was never embedded.        *)
(***************************************************************************)
IsChunks == last.op = "chunks"

SlicesTileTheText ==
    /\ \A j \in 1..Len(last.items) : last.items[j].loc = (j - 1) * last.chunk_size
    /\ Flatten([j \in 1..Len(last.items) |-> last.items[j].text]) = last.raw

RetrievedIsEmbedded ==
    /\ Len(last.back) = Len(last.items)
    /\ \A j \in 1..Len(last.items) : last.back[j].chunk = last.items[j].text

C29_RetrievedChunkIsEmbeddedSlice ==
    IsChunks => SlicesTileTheText /\ RetrievedIsEmbedded

\* what does hold: the tiling for every size, the equality for the size the
\* retrieval assumes
C29_EmbeddedSliceAtDefaultSize ==
    IsChunks =>
        /\ SlicesTileTheText
        /\ last.chunk_size = RetrieveChunkSize => RetrievedIsEmbedded

(***************************************************************************)
(* C27  The parsed-date projection of a table's first column is computed   *)
(* at most once per table: of any number of direct-match requests on the   *)
(* same unchanged table only the first parses the column, the later ones   *)
(* reuse the cached projection.                                            *)
(* Violated: the cache is an attribute of the frame, and every request     *)
(* reads a frame of its own, so every request parses the column again.     *)
(***************************************************************************)
IsDirectTwice == last.op = "direct_twice"

C27_ColumnParsedOncePerTable ==
    IsDirectTwice /\ last.first.step.parses = 1 => last.second.step.parses = 0

\* what does hold: a request parses the column at most once, and leaves the
\* projection on its own frame
C27_ColumnParsedOncePerRequest ==
    IsDirectTwice =>
        \A r \in {last.first, last.second} :
            /\ r.step.parses <= 1
            /\ r.step.parses = 1 =>
                  r.step.frame.attrs = Some(ColumnDates(last.rows))

(***************************************************************************)
(* C28  _build_prompt runs the spill retrieval for a source query only if  *)
(* run_shell spilled that query's output; a text that was not spilled is   *)
(* inlined as it is and never has a path in it read or replaces the        *)
(* snippet.                                                                *)
(* Violated: the test is whether the marker occurs in the snippet, and a   *)
(* script that prints the marker itself passes it.                         *)
(***************************************************************************)
IsBuildPrompt == last.op = "build_prompt"

C28_RetrievalOnlyForSpilledRuns ==
    IsBuildPrompt /\ last.part.retrieved => last.run.spilled

\* what does hold: a spilled run is followed by the retrieval on its own
\* spill file, and a snippet without the marker is inlined as it is
C28_SpilledRunsAreRetrieved ==
    IsBuildPrompt /\ last.run.out.ok =>
        /\ last.run.spilled =>
              last.part.retrieved /\ last.part.path = Some(last.run.ret[2])
        /\ MarkerPos(last.run.ret) = 0 =>
              ~last.part.retrieved /\ IsSubstring(last.run.ret, last.part.text)

(***************************************************************************)
(* C23  Two concurrent build_script_output_index calls for different       *)
(* blobs can leave the index file with the vectors of one blob and the     *)
(* metadata table with the rows of the other: each artifact holds what the *)
(* call that wrote it last built, and nothing makes that the same call for *)
(* both.  The witness is the corrupted store.                              *)
(***************************************************************************)
AllSpillsDone == \A t \in Threads : tasks.th[t].pc = "done"

C23_EachArtifactIsItsLastWriters ==
    /\ tasks.writer.index # 0 =>
          disk["script"].index = Some(IndexOf(tasks.th[tasks.writer.index].items))
    /\ tasks.writer.meta # 0 =>
          disk["script"].meta = Some(MetaOf(tasks.th[tasks.writer.meta].items))
    /\ tasks.writer.index = 0 => ~disk["script"].index.some
    /\ tasks.writer.meta = 0 => ~disk["script"].meta.some

\* both calls have returned; the index file holds the vectors of the first
\* blob, the metadata table the rows of the second, and no row describes
\* the vector beside it
C23_Witness ==
    /\ AllSpillsDone
    /\ disk["script"].index = Some(IndexOf(tasks.th[1].items))
    /\ disk["script"].meta = Some(MetaOf(tasks.th[2].items))
    /\ \A i \in 1..Min(Len(disk["script"].index.val), Len(disk["script"].meta.val)) :
          disk["script"].index.val[i].src # disk["script"].meta.val[i]
    /\ Len(disk["script"].index.val) # Len(disk["script"].meta.val)

(***************************************************************************)
(* C22  When several callers make the first search at once against a store *)
(* whose artifacts are on disk, every caller's search runs with the triple *)
(* completely loaded (index, metadata and embedder set, read from those    *)
(* artifacts): no caller is past the load guard while one of the three is  *)
(* unset.                                                                  *)
(* Violated: the guard tests the index global alone, which is set first.   *)
(***************************************************************************)
TripleComplete(m) == m.idx.some /\ m.meta.some /\ m.embed

PastGuard(t) == tasks.th[t].pc = "search"

C22_NoCallerPastGuardBeforeLoaded ==
    \A t \in Threads :
        /\ PastGuard(t) => TripleComplete(mem["csv"])
        /\ tasks.th[t].pc = "done" =>
              /\ TripleComplete(tasks.th[t].seen)
              /\ tasks.th[t].out.exc # "AttributeError"

\* what does hold: the globals that are set are the artifacts' content, and a
\* search that found the triple complete does not fail on an unset global
C22_LoadedPartsAreTheArtifacts ==
    /\ mem["csv"].idx.some => mem["csv"].idx = disk["csv"].index
    /\ mem["csv"].meta.some => mem["csv"].meta = disk["csv"].meta
    /\ \A t \in Threads :
          tasks.th[t].pc = "done" /\ TripleComplete(tasks.th[t].seen) =>
              tasks.th[t].out.exc # "AttributeError"

(***************************************************************************)
(* C24  Every embedding encode, nearest-neighbour search and index build   *)
(* reached from a coroutine (the spill indexing in run_shell, the spill    *)
(* retrieval in _build_prompt) is executed on a worker thread, so that the *)
(* loop thread is free for other coroutines meanwhile: a coroutine whose   *)
(* next statement is such work does not hold the loop thread.              *)
(* Violated: only the script's process is handed to a worker thread.       *)
(***************************************************************************)
HeavyStages == {"encode", "write index", "write meta", "retrieve"}

C24_HeavyWorkOffTheLoop ==
    \A c \in Coroutines :
        tasks.co[c].pc \in HeavyStages => tasks.loop # c

\* what does hold: the script's process runs while the loop thread is free
\* or serves another coroutine
C24_ProcessOffTheLoop ==
    \A c \in Coroutines :
        tasks.co[c].pc \in {"exec", "ready"} => tasks.loop # c

(***************************************************************************)
(* C30  Within one event loop there is no suspension point between the     *)
(* moment run_shell has the script's stdout and the moment _build_prompt   *)
(* has retrieved the chunks for the sentinel: two spill indexings never    *)
(* interleave, and the chunks retrieved for the sentinel of a run come     *)
(* from the spill index built for that run.                                *)
(***************************************************************************)
InBuild(c) == tasks.co[c].pc \in {"write index", "write meta"}

\* between stdout and the retrieval
AfterStdout(c) ==
    tasks.co[c].pc \in {"spill", "encode", "write index", "write meta",
                        "format", "retrieve"}

SpilledAndRetrieved(c) ==
    /\ tasks.co[c].pc = "done"
    /\ tasks.co[c].path # ""
    /\ tasks.co[c].retrieved

C30_RetrievalReadsOwnSpillIndex ==
    /\ \A c \in Coroutines : AfterStdout(c) => tasks.loop = c
    /\ \A c, e \in Coroutines : InBuild(c) /\ InBuild(e) => c = e
    /\ \A c \in Coroutines :
          SpilledAndRetrieved(c) =>
              /\ tasks.co[c].target = tasks.co[c].path
              /\ tasks.co[c].from = tasks.co[c].built
              /\ tasks.co[c].from.index = Some(IndexOf(tasks.co[c].items))
              /\ tasks.co[c].from.meta = Some(MetaOf(tasks.co[c].items))

\* two requests whose scripts printed different long outputs both ended with
\* retrieved chunks
C30_Witness ==
    \E c, e \in Coroutines :
        /\ SpilledAndRetrieved(c) /\ SpilledAndRetrieved(e)
        /\ tasks.co[c].built # tasks.co[e].built
        /\ tasks.co[c].chunks # <<>> /\ tasks.co[e].chunks # <<>>
=============================================================================
